---- MODULE Spec2Model ----
(***************************************************************************)
(* Model of the BOL generator (jblick1327/shipping): the operator's form   *)
(* (order-number list, dimension list, counters, entries), the Generate    *)
(* button of gui.select_carrier_and_generate, and the functions of the     *)
(* validation, lookup, field-map and label modules, applied call by call.  *)
(*                                                                         *)
(* A text is a sequence of one-character strings, so that the regular      *)
(* expressions, the padding and the joins of the source are computed       *)
(* character by character.  Python's None is the value None below.         *)
(***************************************************************************)
EXTENDS Integers, Sequences, FiniteSets, TLC

(***************************************************************************)
(* Text primitives (Python str methods and the re patterns of the source). *)
(***************************************************************************)
None == <<"None">>

\* the decimal digits (Unicode category Nd) a text of the model can hold, one row for
\* each script, zero first: the ASCII digits, then Extended Arabic-Indic, NKo, Bengali,
\* Gujarati, Tamil, Kannada, Sinhala Lith, Lao, Myanmar Shan, Khmer, New Tai Lue,
\* Tai Tham Hora, Tai Tham Tham, Sundanese, Saurashtra, Javanese, Myanmar Tai Laing,
\* Meetei Mayek
DecimalDigits ==
    <<
      <<"0", "1", "2", "3", "4", "5", "6", "7", "8", "9">>,
      <<"۰", "۱", "۲", "۳", "۴", "۵", "۶", "۷", "۸", "۹">>,
      <<"߀", "߁", "߂", "߃", "߄", "߅", "߆", "߇", "߈", "߉">>,
      <<"০", "১", "২", "৩", "৪", "৫", "৬", "৭", "৮", "৯">>,
      <<"૦", "૧", "૨", "૩", "૪", "૫", "૬", "૭", "૮", "૯">>,
      <<"௦", "௧", "௨", "௩", "௪", "௫", "௬", "௭", "௮", "௯">>,
      <<"೦", "೧", "೨", "೩", "೪", "೫", "೬", "೭", "೮", "೯">>,
      <<"෦", "෧", "෨", "෩", "෪", "෫", "෬", "෭", "෮", "෯">>,
      <<"໐", "໑", "໒", "໓", "໔", "໕", "໖", "໗", "໘", "໙">>,
      <<"႐", "႑", "႒", "႓", "႔", "႕", "႖", "႗", "႘", "႙">>,
      <<"០", "១", "២", "៣", "៤", "៥", "៦", "៧", "៨", "៩">>,
      <<"᧐", "᧑", "᧒", "᧓", "᧔", "᧕", "᧖", "᧗", "᧘", "᧙">>,
      <<"᪀", "᪁", "᪂", "᪃", "᪄", "᪅", "᪆", "᪇", "᪈", "᪉">>,
      <<"᪐", "᪑", "᪒", "᪓", "᪔", "᪕", "᪖", "᪗", "᪘", "᪙">>,
      <<"᮰", "᮱", "᮲", "᮳", "᮴", "᮵", "᮶", "᮷", "᮸", "᮹">>,
      <<"꣐", "꣑", "꣒", "꣓", "꣔", "꣕", "꣖", "꣗", "꣘", "꣙">>,
      <<"꧐", "꧑", "꧒", "꧓", "꧔", "꧕", "꧖", "꧗", "꧘", "꧙">>,
      <<"꧰", "꧱", "꧲", "꧳", "꧴", "꧵", "꧶", "꧷", "꧸", "꧹">>,
      <<"꯰", "꯱", "꯲", "꯳", "꯴", "꯵", "꯶", "꯷", "꯸", "꯹">>
    >>

\* the characters [0-9] of a pattern
AsciiDigits == {DecimalDigits[1][k] : k \in 1..10}

\* the characters the pattern \d matches and int() and float() read as digits
Digits == {DecimalDigits[r][k] : r \in DOMAIN DecimalDigits, k \in 1..10}

\* characters str.isdigit() holds true for although they are no decimal digits
\* (superscripts, subscripts, digits with a full stop, circled digits)
OtherDigits ==
    {
    "²", "³", "¹", "᧚", "₀", "₁", "₂", "₃", "₄", "₅", "₆", "₇",
     "₈", "₉", "⒈", "⒉", "⒊", "⒋", "⒌", "⒍", "⒎", "⒏", "⒐", "⓪",
     "⓵", "⓶", "⓷", "⓸", "⓹", "⓺", "⓻", "⓼", "⓽", "⓿", "➀", "➁",
     "➂", "➃", "➄", "➅", "➆", "➇", "➈", "➊", "➋", "➌", "➍", "➎",
     "➏", "➐", "➑", "➒"}

LowerLetters ==
    <<"a", "b", "c", "d", "e", "f", "g", "h", "i", "j", "k", "l", "m",
      "n", "o", "p", "q", "r", "s", "t", "u", "v", "w", "x", "y", "z">>

UpperLetters ==
    <<"A", "B", "C", "D", "E", "F", "G", "H", "I", "J", "K", "L", "M",
      "N", "O", "P", "Q", "R", "S", "T", "U", "V", "W", "X", "Y", "Z">>

Letters == {LowerLetters[i] : i \in 1..26} \cup {UpperLetters[i] : i \in 1..26}

IsDigit(c) == c \in Digits

\* whitespace characters beyond the five with an escape, each written as itself
\* U+000B, vertical tab
VT == ""
\* U+001C, file separator
FS == ""
\* U+001D, group separator
GS == ""
\* U+001E, record separator
RS == ""
\* U+001F, unit separator
US == ""
\* U+0085, next line
NEL == ""
\* U+00A0, no-break space
NBSP == " "
\* U+1680, ogham space mark
OGHAM_SPACE == " "

\* the characters str.isspace() holds true for: the ones str.strip() drops and the
\* pattern \s matches (those a text of the model can hold)
Whitespace ==
    {" ", "\t", "\n", "\r", "\f", VT, FS, GS, RS, US, NEL, NBSP, OGHAM_SPACE}

IsSpace(c) == c \in Whitespace

\* the separators U+001C..U+001F: whitespace to str.strip() and \s, but not to
\* int() and float(), which raise ValueError on them
Separators == {FS, GS, RS, US}

\* the whitespace int() and float() skip at both ends of their argument
NumericSpace == Whitespace \ Separators

AllDigits(s) == \A i \in 1..Len(s) : IsDigit(s[i])

\* the pattern \d+ over a whole text
DigitRun(s) == Len(s) > 0 /\ AllDigits(s)

\* str.isdigit(): non-empty and every character a digit
IsDigitStr(s) == Len(s) > 0 /\ \A i \in 1..Len(s) : s[i] \in Digits \cup OtherDigits

RECURSIVE LStrip(_)
LStrip(s) == IF Len(s) > 0 /\ IsSpace(s[1]) THEN LStrip(Tail(s)) ELSE s

RECURSIVE RStrip(_)
RStrip(s) ==
    IF Len(s) > 0 /\ IsSpace(s[Len(s)]) THEN RStrip(SubSeq(s, 1, Len(s) - 1)) ELSE s

\* str.strip()
Strip(s) == RStrip(LStrip(s))

RECURSIVE NumLStrip(_)
NumLStrip(s) == IF Len(s) > 0 /\ s[1] \in NumericSpace THEN NumLStrip(Tail(s)) ELSE s

RECURSIVE NumRStrip(_)
NumRStrip(s) ==
    IF Len(s) > 0 /\ s[Len(s)] \in NumericSpace
    THEN NumRStrip(SubSeq(s, 1, Len(s) - 1))
    ELSE s

\* the argument of int() or float() without the whitespace the conversion skips
NumStrip(s) == NumRStrip(NumLStrip(s))

\* s[i:j] of Python written with 1-based inclusive positions
Slice(s, i, j) == SubSeq(s, i, IF j > Len(s) THEN Len(s) ELSE j)

StartsWith(s, p) == Len(s) >= Len(p) /\ SubSeq(s, 1, Len(p)) = p

\* the `in` operator on strings
Contains(s, p) ==
    \E i \in 1..(Len(s) - Len(p) + 1) : SubSeq(s, i, i + Len(p) - 1) = p

\* str.replace(old, new), leftmost non-overlapping occurrences (old non-empty)
RECURSIVE Replace(_, _, _)
Replace(s, old, new) ==
    IF Len(s) < Len(old) THEN s
    ELSE IF SubSeq(s, 1, Len(old)) = old
         THEN new \o Replace(SubSeq(s, Len(old) + 1, Len(s)), old, new)
         ELSE <<s[1]>> \o Replace(Tail(s), old, new)

\* sep.join(parts)
RECURSIVE Join(_, _)
Join(sep, parts) ==
    IF Len(parts) = 0 THEN <<>>
    ELSE IF Len(parts) = 1 THEN parts[1]
    ELSE parts[1] \o sep \o Join(sep, Tail(parts))

\* the character str() writes for the digit n
DigitOf(n) == DecimalDigits[1][n + 1]

\* the value int() and float() give the digit c, whatever its script
ValOf(c) ==
    (CHOOSE k \in 1..10 : \E r \in DOMAIN DecimalDigits : DecimalDigits[r][k] = c) - 1

RECURSIVE NatStr(_)
NatStr(n) == IF n < 10 THEN <<DigitOf(n)>> ELSE NatStr(n \div 10) \o <<DigitOf(n % 10)>>

\* str(n) for an int
Str(n) == IF n < 0 THEN <<"-">> \o NatStr(0 - n) ELSE NatStr(n)

\* digits, single underscores allowed between digits (Python numeric literals)
DigitPart(s) ==
    /\ Len(s) > 0
    /\ IsDigit(s[1]) /\ IsDigit(s[Len(s)])
    /\ \A i \in 1..Len(s) : IsDigit(s[i]) \/ s[i] = "_"
    /\ \A i \in 1..(Len(s) - 1) : ~(s[i] = "_" /\ s[i + 1] = "_")

Unsigned(s) == IF Len(s) > 0 /\ s[1] \in {"+", "-"} THEN Tail(s) ELSE s

\* int(s) does not raise ValueError
IsIntText(s) == DigitPart(Unsigned(NumStrip(s)))

RECURSIVE NatVal(_)
NatVal(s) ==
    IF Len(s) = 0 THEN 0
    ELSE IF s[Len(s)] = "_" THEN NatVal(SubSeq(s, 1, Len(s) - 1))
    ELSE 10 * NatVal(SubSeq(s, 1, Len(s) - 1)) + ValOf(s[Len(s)])

\* int(s), for a text that IsIntText accepts
IntVal(s) ==
    LET t == NumStrip(s)
    IN  IF Len(t) > 0 /\ t[1] = "-" THEN 0 - NatVal(Tail(t)) ELSE NatVal(Unsigned(t))

Lower(c) ==
    IF \E i \in 1..26 : UpperLetters[i] = c
    THEN LowerLetters[CHOOSE i \in 1..26 : UpperLetters[i] = c]
    ELSE c

LowerStr(s) == [i \in 1..Len(s) |-> Lower(s[i])]

\* position of the first character of s that is in set cs, 0 when there is none
FirstIn(s, cs) ==
    IF \E i \in 1..Len(s) : s[i] \in cs
    THEN CHOOSE i \in 1..Len(s) : s[i] \in cs /\ \A j \in 1..(i - 1) : s[j] \notin cs
    ELSE 0

\* mantissa of a float literal: digits, digits. , .digits or digits.digits
Mantissa(s) ==
    LET d == FirstIn(s, {"."})
    IN  IF d = 0 THEN DigitPart(s)
        ELSE LET ip == SubSeq(s, 1, d - 1)
                 fp == SubSeq(s, d + 1, Len(s))
             IN  /\ Len(ip) + Len(fp) > 0
                 /\ Len(ip) = 0 \/ DigitPart(ip)
                 /\ Len(fp) = 0 \/ DigitPart(fp)

\* float(s) does not raise ValueError
IsFloatText(s) ==
    LET u == Unsigned(NumStrip(s))
        e == FirstIn(u, {"e", "E"})
    IN  \/ LowerStr(u) \in {<<"i", "n", "f">>, <<"n", "a", "n">>,
                            <<"i", "n", "f", "i", "n", "i", "t", "y">>}
        \/ /\ e = 0
           /\ Mantissa(u)
        \/ /\ e > 0
           /\ Mantissa(SubSeq(u, 1, e - 1))
           /\ DigitPart(Unsigned(SubSeq(u, e + 1, Len(u))))

(***************************************************************************)
(* Carrier table and the texts the source compares with.                   *)
(***************************************************************************)
KPS == <<"K", "P", "S">>
PARCEL_PRO == <<"P", "A", "R", "C", "E", "L", " ", "P", "R", "O">>
FF == <<"F", "F">>
NFF == <<"N", "F", "F">>
FF_LOGISTICS == <<"F", "F", " ", "L", "O", "G", "I", "S", "T", "I", "C", "S">>
CRR == <<"C", "R", "R">>
OTHER_CARRIER == <<"O", "t", "h", "e", "r">>

CARRIER_OPTIONS ==
    (1 :> KPS) @@ (2 :> PARCEL_PRO) @@ (3 :> FF) @@ (4 :> NFF)
    @@ (5 :> FF_LOGISTICS) @@ (6 :> CRR) @@ (7 :> OTHER_CARRIER)

\* CARRIER_OPTIONS.get(choice, "")
CarrierGet(choice) ==
    IF choice \in DOMAIN CARRIER_OPTIONS THEN CARRIER_OPTIONS[choice] ELSE <<>>

TagC == <<"(", "C", ")">>
TagB == <<"(", "B", ")">>
SuffixC == <<" ">> \o TagC
SuffixB == <<" ">> \o TagB
NA == <<"N", "/", "A">>
PadOrder == <<".", "0", "0">>

(***************************************************************************)
(* Order-number helpers.                                                   *)
(***************************************************************************)
\* the text a pattern ending in $ has to match: $ also matches before one last newline
BeforeLastNewline(t) ==
    IF Len(t) > 0 /\ t[Len(t)] = "\n" THEN SubSeq(t, 1, Len(t) - 1) ELSE t

\* the pattern ^\d+(\.\d{1,2})?$
OrderShape(t) ==
    LET u == BeforeLastNewline(t)
        d == FirstIn(u, {"."})
    IN  IF d = 0 THEN DigitRun(u)
        ELSE /\ DigitRun(SubSeq(u, 1, d - 1))
             /\ DigitRun(SubSeq(u, d + 1, Len(u)))
             /\ Len(u) - d \in 1..2

validate_order_number(order_number) == OrderShape(Strip(order_number))

\* the pattern ^\d+(\.|-|_)?\d*$ of update_order
EditOrderShape(t) ==
    LET u == BeforeLastNewline(t)
        d == FirstIn(u, {".", "-", "_"})
    IN  IF d = 0 THEN DigitRun(u)
        ELSE /\ DigitRun(SubSeq(u, 1, d - 1))
             /\ AllDigits(SubSeq(u, d + 1, Len(u)))

process_order_number(order_number) ==
    LET processed == Replace(Replace(order_number, <<"-">>, <<".">>), <<"_">>, <<".">>)
    IN  IF Len(processed) >= 8 THEN processed ELSE processed \o PadOrder

(***************************************************************************)
(* Dimension helpers.                                                      *)
(***************************************************************************)
\* re.split(r'\D+', s): the digit groups between runs of non-digits
RECURSIVE SplitFrom(_, _, _, _)
SplitFrom(s, i, groups, inSep) ==
    IF i > Len(s) THEN groups
    ELSE IF IsDigit(s[i])
         THEN SplitFrom(s, i + 1,
                        [groups EXCEPT ![Len(groups)] = Append(@, s[i])], FALSE)
         ELSE IF inSep THEN SplitFrom(s, i + 1, groups, TRUE)
              ELSE SplitFrom(s, i + 1, Append(groups, <<>>), TRUE)

SplitNonDigits(s) == SplitFrom(s, 1, <<(<<>>)>>, FALSE)

\* re.match(r'^\d{6}$', s): six digits, with or without one newline after them
SixDigits(s) ==
    /\ Len(s) \in {6, 7}
    /\ AllDigits(SubSeq(s, 1, 6))
    /\ Len(s) = 7 => s[7] = "\n"

\* gui.process_skid_dimensions; None stands for the rejected input (an error is shown)
process_skid_dimensions(carrier_choice, dimension_str) ==
    LET carrier_name == CarrierGet(carrier_choice)
        dimensions == SplitNonDigits(Strip(dimension_str))
    IN  IF carrier_name = PARCEL_PRO THEN dimension_str
        ELSE IF SixDigits(dimension_str)
        THEN SubSeq(dimension_str, 1, 2) \o <<"x">> \o SubSeq(dimension_str, 3, 4)
             \o <<"x">> \o SubSeq(dimension_str, 5, Len(dimension_str))
        ELSE IF Len(dimensions) # 3 \/ ~(\A k \in 1..Len(dimensions) : IsDigitStr(dimensions[k]))
        THEN None
        ELSE dimensions[1] \o <<"x">> \o dimensions[2] \o <<"x">> \o dimensions[3]

\* Python truthiness of the value process_skid_dimensions returns
Truthy(v) == v # None /\ Len(v) > 0

\* sum(1 for dim in dims if pred(dim))
CountIf(dims, P(_)) == Cardinality({k \in 1..Len(dims) : P(dims[k])})

IsPlainSkid(dim) == ~Contains(dim, TagC) /\ ~Contains(dim, TagB)

IsCarpet(dim) == Contains(dim, TagC)

IsBox(dim) == Contains(dim, TagB)

actual_skid_count(dims) == CountIf(dims, IsPlainSkid)

(***************************************************************************)
(* helpers.validate_skid_count: the outcome, with the pair it reports.     *)
(*   "ok"          returns True                                            *)
(*   "invalid"     ValueError caught: "Please enter a valid skid count."   *)
(*   "restriction" PARCEL PRO with dimensions entered                      *)
(*   "mismatch"    declared # actual                                       *)
(*   "KeyError"    CARRIER_OPTIONS[carrier_choice] raises (uncaught)       *)
(***************************************************************************)
SkidResult(st, d, a) == [status |-> st, declared |-> d, actual |-> a]

validate_skid_count(carrier_choice, skid_count_text, dims) ==
    IF ~IsIntText(skid_count_text) THEN SkidResult("invalid", 0, 0)
    ELSE LET entered_skid_count == IntVal(skid_count_text)
         IN  IF carrier_choice \notin DOMAIN CARRIER_OPTIONS
             THEN SkidResult("KeyError", entered_skid_count, 0)
             ELSE IF CARRIER_OPTIONS[carrier_choice] = PARCEL_PRO
             THEN IF Len(dims) > 0
                  THEN SkidResult("restriction", entered_skid_count, 0)
                  ELSE SkidResult("ok", entered_skid_count, 0)
             ELSE IF CARRIER_OPTIONS[carrier_choice] = KPS
             THEN SkidResult("ok", entered_skid_count, 0)
             ELSE IF entered_skid_count # actual_skid_count(dims)
             THEN SkidResult("mismatch", entered_skid_count, actual_skid_count(dims))
             ELSE SkidResult("ok", entered_skid_count, actual_skid_count(dims))

(***************************************************************************)
(* Carrier-field validation (utils.validate_alphanumeric,                  *)
(* utils.validate_numeric_field, helpers.validate_carrier_fields).         *)
(***************************************************************************)
validate_alphanumeric(value) ==
    LET t == Strip(value)
    IN  Len(t) > 0 /\ \A i \in 1..Len(t) : t[i] \in AsciiDigits \cup Letters

\* float(value.strip()): the separators U+001C..U+001F go with the strip
validate_numeric_field(value) == IsFloatText(Strip(value))

\* "ok", or the check at which validate_carrier_fields returns False
carrier_fields_result(carrier_choice, tracking, quote_number, quote_price, weight) ==
    LET carrier_name == CarrierGet(carrier_choice)
    IN  IF carrier_name \in {FF, NFF} /\ ~validate_alphanumeric(tracking) THEN "tracking"
        ELSE IF carrier_name \in {FF, NFF} /\ ~validate_alphanumeric(quote_number)
        THEN "quote_number"
        ELSE IF carrier_name \in {FF, NFF, FF_LOGISTICS, CRR}
                /\ ~validate_numeric_field(quote_price)
        THEN "quote_price"
        ELSE IF carrier_name \notin {KPS, PARCEL_PRO} /\ ~validate_numeric_field(weight)
        THEN "weight"
        ELSE "ok"

validate_carrier_fields(carrier_choice, tracking, quote_number, quote_price, weight) ==
    carrier_fields_result(carrier_choice, tracking, quote_number, quote_price, weight) = "ok"

(***************************************************************************)
(* Texts of build_data_map.py and utils.py.                                *)
(***************************************************************************)
UnknownName == <<"U", "n", "k", "n", "o", "w", "n">>

UnknownAddress ==
    <<"U", "n", "k", "n", "o", "w", "n", " ", "A", "d", "d", "r", "e", "s", "s">>

UnknownCity == <<"U", "n", "k", "n", "o", "w", "n", " ", "C", "i", "t", "y">>

UnknownPostal ==
    <<"U", "n", "k", "n", "o", "w", "n", " ", "P", "o", "s", "t", "a", "l", " ", "C",
      "o", "d", "e">>

AttnTag == <<"A", "T", "T", "N", ":">>

AttnPrefix == <<"A", "T", "T", "N", ":", " ">>

LbsSuffix == <<" ", "L", "B", "S", ".">>

CommaSpace == <<",", " ">>

DotSpace == <<".", " ">>

SenderIdFF == <<"4", "0", "2", "1", "4", "0">>

SenderIdNFF == <<"L", "O", "U", "0", "0", "6">>

QuotePrefix == <<"Q", "u", "o", "t", "e", " ", "#", ":", " ">>

QuoteFallbackFF ==
    <<"Q", "u", "o", "t", "e", " ", "#", ":", " ", "Q", "N", " ", "I", "D">>

Dollar == <<"$">>

FromNameText ==
    <<"L", "O", "U", "I", "S", "E", " ", "K", "O", "O", "L", " ", "&", " ", "G", "A",
      "L", "T">>

FromAddrText ==
    <<"2", "1", "2", "3", " ", "M", "C", "C", "O", "W", "A", "N", " ", "R", "O", "A",
      "D">>

FromCityText ==
    <<"S", "C", "A", "R", "B", "O", "R", "O", "U", "G", "H", ",", " ", "O", "N", ".",
      " ", "M", "1", "S", " ", "3", "Y", "6">>

PrepaidText == <<" ", " ", " ", " ", " ", "X">>

PageTtlText == <<" ", " ", " ", " ", " ", "1">>

Desc1Text ==
    <<"C", "H", "I", "L", "D", "C", "A", "R", "E", " ", "M", "A", "T", "E", "R", "I",
      "A", "L", "S", "/", "F", "U", "R", "N", "I", "T", "U", "R", "E">>

PkgTypeText == <<"P", "C", "E", "S", ".">>

SkidsText == <<"S", "K", "I", "D", "S">>

CarpetsText == <<"C", "R", "P", "T", "S", ".">>

BoxesText == <<"B", "O", "X", "E", "S">>

ExtText == <<" ", "e", "x", "t", ".", " ">>

(***************************************************************************)
(* State.  The form of gui.py: the module-level lists and counters, the    *)
(* Tk variables and entry widgets, the Edit/Update button, the day the      *)
(* program was started, and the call made last with what it gave.          *)
(***************************************************************************)
VARIABLES
    carrier_var,            \* gui.carrier_var (0 = no radio button chosen)
    classification_var,     \* "Skid", "Carpet" or "Box"
    order_numbers,          \* gui.order_numbers
    order_listbox,          \* what order_listbox displays
    skid_dimensions,        \* gui.skid_dimensions
    skid_listbox,           \* what skid_listbox displays
    skid_count,             \* module-level counters of gui.py
    carpet_count,
    box_count,
    order_number_entry,     \* entry texts
    skid_dimension_entry,
    skid_count_entry,
    skid_cartons_entry,
    tracking_number_entry,
    quote_number_entry,
    quote_price_entry,
    weight_entry,
    edit_mode,              \* command of edit_button: "Edit", "UpdateOrder", "UpdateSkid"
    edit_index,             \* the index captured by the update closure (1-based)
    inside_var,             \* delivery-instruction checkboxes
    tailgate_var,
    appointment_var,
    two_man_var,
    white_glove_var,
    selected_date_var,      \* the shipping date shown
    db_mode,                \* database.DB_MODE, read from config.ini at import
    CURRENT_DATE,           \* utils.CURRENT_DATE, the day the program was started
    pc,                     \* "Idle", or how the call in `run` ended
    run,                    \* the call made last: its arguments and what it gave
    errors                  \* dialogs the operation in progress (or just done) has shown

form_vars ==
    <<carrier_var, classification_var, order_numbers, order_listbox, skid_dimensions,
      skid_listbox, skid_count, carpet_count, box_count, order_number_entry,
      skid_dimension_entry, skid_count_entry, skid_cartons_entry, tracking_number_entry,
      quote_number_entry, quote_price_entry, weight_entry, edit_mode, edit_index>>

delivery_vars == <<inside_var, tailgate_var, appointment_var, two_man_var, white_glove_var>>

run_vars == <<db_mode, CURRENT_DATE, pc, run>>

vars == <<form_vars, delivery_vars, selected_date_var, run_vars, errors>>

(***************************************************************************)
(* Bounds of the model.                                                    *)
(***************************************************************************)
MaxOrders == 2

MaxDims == 2

MaxAdds == 2

RemoveAt(seq, i) == SubSeq(seq, 1, i - 1) \o SubSeq(seq, i + 1, Len(seq))

(***************************************************************************)
(* Handlers of the form.  The operator types `raw` into the entry and      *)
(* triggers the handler; a handler runs only while no call is in progress. *)
(***************************************************************************)
SelectCarrier(c) ==
    /\ pc = "Idle"
    /\ carrier_var' = c
    /\ errors' = <<>>
    /\ UNCHANGED <<classification_var, order_numbers, order_listbox, skid_dimensions,
                   skid_listbox, skid_count, carpet_count, box_count, order_number_entry,
                   skid_dimension_entry, skid_count_entry, skid_cartons_entry,
                   tracking_number_entry, quote_number_entry, quote_price_entry,
                   weight_entry, edit_mode, edit_index, delivery_vars, selected_date_var, run_vars>>

SelectClassification(k) ==
    /\ pc = "Idle"
    /\ classification_var' = k
    /\ errors' = <<>>
    /\ UNCHANGED <<carrier_var, order_numbers, order_listbox, skid_dimensions,
                   skid_listbox, skid_count, carpet_count, box_count, order_number_entry,
                   skid_dimension_entry, skid_count_entry, skid_cartons_entry,
                   tracking_number_entry, quote_number_entry, quote_price_entry,
                   weight_entry, edit_mode, edit_index, delivery_vars, selected_date_var, run_vars>>

\* the operator types into the skid-count entry
TypeSkidCount(text) ==
    /\ pc = "Idle"
    /\ skid_count_entry' = text
    /\ errors' = <<>>
    /\ UNCHANGED <<carrier_var, classification_var, order_numbers, order_listbox,
                   skid_dimensions, skid_listbox, skid_count, carpet_count, box_count,
                   order_number_entry, skid_dimension_entry, skid_cartons_entry,
                   tracking_number_entry, quote_number_entry, quote_price_entry,
                   weight_entry, edit_mode, edit_index, delivery_vars, selected_date_var, run_vars>>

\* the operator fills the tracking, quote, price, weight and cartons entries
TypeFields(f) ==
    /\ pc = "Idle"
    /\ tracking_number_entry' = f.tracking
    /\ quote_number_entry' = f.quote_number
    /\ quote_price_entry' = f.quote_price
    /\ weight_entry' = f.weight
    /\ skid_cartons_entry' = f.cartons
    /\ errors' = <<>>
    /\ UNCHANGED <<carrier_var, classification_var, order_numbers, order_listbox,
                   skid_dimensions, skid_listbox, skid_count, carpet_count, box_count,
                   order_number_entry, skid_dimension_entry, skid_count_entry,
                   edit_mode, edit_index, delivery_vars, selected_date_var, run_vars>>

add_order_number(raw) ==
    LET order_number == Strip(raw)
        processed_number == process_order_number(order_number)
    IN  /\ pc = "Idle"
        /\ Len(order_numbers) < MaxOrders
        /\ IF validate_order_number(order_number)
           THEN /\ order_numbers' = Append(order_numbers, processed_number)
                /\ order_listbox' = Append(order_listbox, processed_number)
                /\ order_number_entry' = <<>>
                /\ errors' = <<>>
           ELSE /\ order_number_entry' = raw
                /\ errors' = <<"Invalid Input: order number">>
                /\ UNCHANGED <<order_numbers, order_listbox>>
        /\ UNCHANGED <<carrier_var, classification_var, skid_dimensions, skid_listbox,
                       skid_count, carpet_count, box_count, skid_dimension_entry,
                       skid_count_entry, skid_cartons_entry, tracking_number_entry,
                       quote_number_entry, quote_price_entry, weight_entry, edit_mode,
                       edit_index, delivery_vars, selected_date_var, run_vars>>

\* a count that shows the length of the list
update_skid_count_all(dims) == Str(Len(dims))

\* gui.update_skid_count: the text written to the skid-count entry
update_skid_count(dims) == Str(actual_skid_count(dims))

\* the classification tag add_skid_dimension and update_skid append
Tagged(processed, k) ==
    IF k = "Carpet" THEN processed \o SuffixC
    ELSE IF k = "Box" THEN processed \o SuffixB
    ELSE processed

add_skid_dimension(raw) ==
    LET dimension_str == Strip(raw)
        processed_dimensions == process_skid_dimensions(carrier_var, dimension_str)
        tagged == Tagged(processed_dimensions, classification_var)
    IN  /\ pc = "Idle"
        /\ Len(skid_dimensions) < MaxDims
        /\ skid_count + carpet_count + box_count < MaxAdds
        /\ IF CarrierGet(carrier_var) = PARCEL_PRO /\ classification_var = "Skid"
           THEN /\ errors' = <<"Invalid Operation: PARCEL PRO does not support Skid shipments.">>
                /\ skid_dimension_entry' = raw
                /\ UNCHANGED <<skid_dimensions, skid_listbox, skid_count, carpet_count,
                               box_count, skid_count_entry>>
           ELSE IF Truthy(processed_dimensions)
           THEN /\ carpet_count' = IF classification_var = "Carpet"
                                   THEN carpet_count + 1 ELSE carpet_count
                /\ box_count' = IF classification_var = "Box"
                                THEN box_count + 1 ELSE box_count
                /\ skid_count' = IF classification_var \notin {"Carpet", "Box"}
                                 THEN skid_count + 1 ELSE skid_count
                /\ skid_dimensions' = Append(skid_dimensions, tagged)
                /\ skid_listbox' = Append(skid_listbox, tagged)
                /\ skid_dimension_entry' = <<>>
                /\ skid_count_entry' = update_skid_count(skid_dimensions')
                /\ errors' = <<>>
           ELSE /\ errors' = IF processed_dimensions = None
                             THEN <<"Invalid Input: three numeric dimensions">>
                             ELSE <<>>
                /\ skid_dimension_entry' = raw
                /\ UNCHANGED <<skid_dimensions, skid_listbox, skid_count, carpet_count,
                               box_count, skid_count_entry>>
        /\ UNCHANGED <<carrier_var, classification_var, order_numbers, order_listbox,
                       order_number_entry, skid_cartons_entry, tracking_number_entry,
                       quote_number_entry, quote_price_entry, weight_entry, edit_mode,
                       edit_index, delivery_vars, selected_date_var, run_vars>>

\* delete_selected_item with item i of the order listbox selected
delete_order(i) ==
    /\ pc = "Idle"
    /\ i \in 1..Len(order_listbox)
    /\ i \in 1..Len(order_numbers)
    /\ order_listbox' = RemoveAt(order_listbox, i)
    /\ order_numbers' = RemoveAt(order_numbers, i)
    /\ errors' = <<>>
    /\ UNCHANGED <<carrier_var, classification_var, skid_dimensions, skid_listbox,
                   skid_count, carpet_count, box_count, order_number_entry,
                   skid_dimension_entry, skid_count_entry, skid_cartons_entry,
                   tracking_number_entry, quote_number_entry, quote_price_entry,
                   weight_entry, edit_mode, edit_index, delivery_vars, selected_date_var, run_vars>>

\* a delete that removes the item from the display and leaves the list as it was
delete_skid_display_only(i) ==
    /\ pc = "Idle"
    /\ i \in 1..Len(skid_listbox)
    /\ i \in 1..Len(skid_dimensions)
    /\ skid_listbox' = RemoveAt(skid_listbox, i)
    /\ skid_count_entry' = update_skid_count(skid_dimensions)
    /\ errors' = <<>>
    /\ UNCHANGED <<carrier_var, classification_var, order_numbers, order_listbox,
                   skid_dimensions, skid_count, carpet_count, box_count,
                   order_number_entry, skid_dimension_entry, skid_cartons_entry,
                   tracking_number_entry, quote_number_entry, quote_price_entry,
                   weight_entry, edit_mode, edit_index, delivery_vars, selected_date_var,
                   run_vars>>

\* delete_selected_item with item i of the dimension listbox selected
delete_skid(i) ==
    /\ pc = "Idle"
    /\ i \in 1..Len(skid_listbox)
    /\ i \in 1..Len(skid_dimensions)
    /\ skid_listbox' = RemoveAt(skid_listbox, i)
    /\ skid_dimensions' = RemoveAt(skid_dimensions, i)
    /\ skid_count_entry' = update_skid_count(skid_dimensions')
    /\ errors' = <<>>
    /\ UNCHANGED <<carrier_var, classification_var, order_numbers, order_listbox,
                   skid_count, carpet_count, box_count, order_number_entry,
                   skid_dimension_entry, skid_cartons_entry, tracking_number_entry,
                   quote_number_entry, quote_price_entry, weight_entry, edit_mode,
                   edit_index, delivery_vars, selected_date_var, run_vars>>

\* edit_selected_item with item i of the order listbox selected
edit_order(i) ==
    /\ pc = "Idle"
    /\ edit_mode = "Edit"
    /\ i \in 1..Len(order_listbox)
    /\ i \in 1..Len(order_numbers)
    /\ order_number_entry' = order_numbers[i]
    /\ edit_mode' = "UpdateOrder"
    /\ edit_index' = i
    /\ errors' = <<>>
    /\ UNCHANGED <<carrier_var, classification_var, order_numbers, order_listbox,
                   skid_dimensions, skid_listbox, skid_count, carpet_count, box_count,
                   skid_dimension_entry, skid_count_entry, skid_cartons_entry,
                   tracking_number_entry, quote_number_entry, quote_price_entry,
                   weight_entry, delivery_vars, selected_date_var, run_vars>>

\* the closure update_order of edit_selected_item
update_order(raw) ==
    LET new_value == Strip(raw)
    IN  /\ pc = "Idle"
        /\ edit_mode = "UpdateOrder"
        /\ IF ~EditOrderShape(new_value)
           THEN /\ errors' = <<"Invalid Input: Please enter a valid order number.">>
                /\ order_number_entry' = raw
                /\ UNCHANGED <<order_numbers, order_listbox, edit_mode, edit_index>>
           ELSE IF edit_index \notin 1..Len(order_numbers)
           THEN /\ errors' = <<"IndexError">>
                /\ order_number_entry' = raw
                /\ UNCHANGED <<order_numbers, order_listbox, edit_mode, edit_index>>
           ELSE /\ order_numbers' =
                       [order_numbers EXCEPT ![edit_index] = process_order_number(new_value)]
                /\ order_listbox' =
                       [order_listbox EXCEPT ![edit_index] = process_order_number(new_value)]
                /\ order_number_entry' = <<>>
                /\ edit_mode' = "Edit"
                /\ edit_index' = 0
                /\ errors' = <<>>
        /\ UNCHANGED <<carrier_var, classification_var, skid_dimensions, skid_listbox,
                       skid_count, carpet_count, box_count, skid_dimension_entry,
                       skid_count_entry, skid_cartons_entry, tracking_number_entry,
                       quote_number_entry, quote_price_entry, weight_entry, delivery_vars, selected_date_var, run_vars>>

\* edit_selected_item with item i of the dimension listbox selected
edit_skid(i) ==
    LET skid_text == skid_dimensions[i]
    IN  /\ pc = "Idle"
        /\ edit_mode = "Edit"
        /\ i \in 1..Len(skid_listbox)
        /\ i \in 1..Len(skid_dimensions)
        /\ IF Contains(skid_text, TagC)
           THEN /\ skid_dimension_entry' = Replace(skid_text, SuffixC, <<>>)
                /\ classification_var' = "Carpet"
           ELSE IF Contains(skid_text, TagB)
           THEN /\ skid_dimension_entry' = Replace(skid_text, SuffixB, <<>>)
                /\ classification_var' = "Box"
           ELSE /\ skid_dimension_entry' = skid_text
                /\ classification_var' = "Skid"
        /\ edit_mode' = "UpdateSkid"
        /\ edit_index' = i
        /\ errors' = <<>>
        /\ UNCHANGED <<carrier_var, order_numbers, order_listbox, skid_dimensions,
                       skid_listbox, skid_count, carpet_count, box_count,
                       order_number_entry, skid_count_entry, skid_cartons_entry,
                       tracking_number_entry, quote_number_entry, quote_price_entry,
                       weight_entry, delivery_vars, selected_date_var, run_vars>>

\* the closure update_skid of edit_selected_item
update_skid(raw) ==
    LET new_value == Strip(raw)
        processed_value == process_skid_dimensions(carrier_var, new_value)
        tagged == Tagged(processed_value, classification_var)
    IN  /\ pc = "Idle"
        /\ edit_mode = "UpdateSkid"
        /\ IF ~Truthy(processed_value)
           THEN /\ errors' = IF processed_value = None
                             THEN <<"Invalid Input: three numeric dimensions">>
                             ELSE <<>>
                /\ skid_dimension_entry' = raw
                /\ UNCHANGED <<skid_dimensions, skid_listbox, skid_count_entry, edit_mode,
                               edit_index>>
           ELSE IF edit_index \notin 1..Len(skid_dimensions)
           THEN /\ errors' = <<"IndexError">>
                /\ skid_dimension_entry' = raw
                /\ UNCHANGED <<skid_dimensions, skid_listbox, skid_count_entry, edit_mode,
                               edit_index>>
           ELSE /\ skid_dimensions' = [skid_dimensions EXCEPT ![edit_index] = tagged]
                /\ skid_listbox' = [skid_listbox EXCEPT ![edit_index] = tagged]
                /\ skid_dimension_entry' = <<>>
                /\ edit_mode' = "Edit"
                /\ edit_index' = 0
                /\ skid_count_entry' = update_skid_count(skid_dimensions')
                /\ errors' = <<>>
        /\ UNCHANGED <<carrier_var, classification_var, order_numbers, order_listbox,
                       skid_count, carpet_count, box_count, order_number_entry,
                       skid_cartons_entry, tracking_number_entry, quote_number_entry,
                       quote_price_entry, weight_entry, delivery_vars, selected_date_var, run_vars>>

clear_contents ==
    /\ pc = "Idle"
    /\ order_number_entry' = <<>>
    /\ order_listbox' = <<>>
    /\ skid_dimension_entry' = <<>>
    /\ skid_listbox' = <<>>
    /\ tracking_number_entry' = <<>>
    /\ weight_entry' = <<>>
    /\ skid_cartons_entry' = <<>>
    /\ skid_count_entry' = <<>>
    /\ quote_price_entry' = <<>>
    /\ quote_number_entry' = <<>>
    /\ order_numbers' = <<>>
    /\ skid_dimensions' = <<>>
    /\ selected_date_var' = CURRENT_DATE
    /\ errors' = <<>>
    /\ UNCHANGED <<carrier_var, classification_var, skid_count, carpet_count, box_count,
                   edit_mode, edit_index, delivery_vars, run_vars>>

\* two digits, zero-padded (%m and %d of strftime)
Pad2(n) == IF n < 10 THEN <<"0">> \o Str(n) ELSE Str(n)

\* datetime.now().strftime("%Y-%m-%d") on the day year-month-day (a four-digit year)
strftime(year, month, day) == Str(year) \o <<"-">> \o Pad2(month) \o <<"-">> \o Pad2(day)

\* datetime.strptime(selected_date, '%m/%d/%y').strftime('%Y-%m-%d')
format_selected_date(month, day, yy) ==
    Str(IF yy <= 68 THEN 2000 + yy ELSE 1900 + yy) \o <<"-">> \o Pad2(month)
    \o <<"-">> \o Pad2(day)

\* the Select button of the calendar popup, with the day month/day/yy chosen
on_date_selected(month, day, yy) ==
    /\ pc = "Idle"
    /\ selected_date_var' = format_selected_date(month, day, yy)
    /\ errors' = <<>>
    /\ UNCHANGED <<form_vars, delivery_vars, run_vars>>

\* the operator clicks one of the five delivery-instruction checkboxes
ToggleDelivery(flag) ==
    /\ pc = "Idle"
    /\ inside_var' = IF flag = "Inside" THEN ~inside_var ELSE inside_var
    /\ tailgate_var' = IF flag = "Tailgate" THEN ~tailgate_var ELSE tailgate_var
    /\ appointment_var' = IF flag = "Appointment" THEN ~appointment_var ELSE appointment_var
    /\ two_man_var' = IF flag = "2-Man" THEN ~two_man_var ELSE two_man_var
    /\ white_glove_var' = IF flag = "White Glove" THEN ~white_glove_var ELSE white_glove_var
    /\ errors' = <<>>
    /\ UNCHANGED <<form_vars, selected_date_var, run_vars>>

(***************************************************************************)
(* utils.clean_text_refined and utils.clean_phone_number.                  *)
(***************************************************************************)
\* re.sub(r"\s+", " ", s): every run of whitespace becomes one space
RECURSIVE CollapseSpaces(_)
CollapseSpaces(s) ==
    IF Len(s) = 0 THEN <<>>
    ELSE IF IsSpace(s[1])
         THEN <<" ">> \o CollapseSpaces(LStrip(s))
         ELSE <<s[1]>> \o CollapseSpaces(Tail(s))

DigitsAt(s, i, n) == i >= 1 /\ i + n - 1 <= Len(s) /\ AllDigits(SubSeq(s, i, i + n - 1))

\* position after an optional [\s-] at position i
SkipSep(s, i) == IF i <= Len(s) /\ (IsSpace(s[i]) \/ s[i] = "-") THEN i + 1 ELSE i

\* \d{3}[\s-]?\d{3}[\s-]?\d{4} matched at i: the position of its last character, 0 if none
PhoneCoreEnd(s, i) ==
    IF ~DigitsAt(s, i, 3) THEN 0
    ELSE LET j == SkipSep(s, i + 3)
         IN  IF ~DigitsAt(s, j, 3) THEN 0
             ELSE LET k == SkipSep(s, j + 3)
                  IN  IF ~DigitsAt(s, k, 4) THEN 0 ELSE k + 3

ExtMarkers == {"x", "X", "e", "t", "E", "T"}

\* first position >= i whose character is not in cs (Len(s) + 1 if none)
RECURSIVE SkipWhile(_, _, _)
SkipWhile(s, i, cs) == IF i <= Len(s) /\ s[i] \in cs THEN SkipWhile(s, i + 1, cs) ELSE i

\* end of the whole phone pattern, with the optional ([xXextEXT]*\d+)? after the core
PhoneEnd(s, i) ==
    LET c == PhoneCoreEnd(s, i)
        m == SkipWhile(s, c + 1, ExtMarkers)
        d == SkipWhile(s, m, Digits)
    IN  IF c = 0 THEN 0 ELSE IF d > m THEN d - 1 ELSE c

\* where re.search finds the phone pattern: 0 when it does not occur
PhoneStart(s) ==
    IF \E i \in 1..Len(s) : PhoneCoreEnd(s, i) > 0
    THEN CHOOSE i \in 1..Len(s) :
            PhoneCoreEnd(s, i) > 0 /\ \A j \in 1..(i - 1) : PhoneCoreEnd(s, j) = 0
    ELSE 0

\* the digits of s, in order
RECURSIVE OnlyDigits(_)
OnlyDigits(s) ==
    IF Len(s) = 0 THEN <<>>
    ELSE IF IsDigit(s[1]) THEN <<s[1]>> \o OnlyDigits(Tail(s)) ELSE OnlyDigits(Tail(s))

\* utils.clean_phone_number on a text the phone pattern matched
clean_phone_number(phone_number) ==
    LET core == PhoneCoreEnd(phone_number, 1)
        main == OnlyDigits(SubSeq(phone_number, 1, core))
        ext == OnlyDigits(SubSeq(phone_number, core + 1, Len(phone_number)))
        formatted == <<"(">> \o SubSeq(main, 1, 3) \o <<")", " ">> \o SubSeq(main, 4, 6)
                     \o <<"-">> \o SubSeq(main, 7, 10)
    IN  IF Len(ext) > 0 THEN formatted \o ExtText \o ext ELSE formatted

\* utils.clean_text_refined(text)[0]
clean_text_refined(text) ==
    LET collapsed == CollapseSpaces(Strip(text))
        cleaned_text == Strip(Replace(collapsed, AttnTag, <<>>))
        start == PhoneStart(cleaned_text)
        matched == SubSeq(cleaned_text, start, PhoneEnd(cleaned_text, start))
        rest == Strip(Replace(cleaned_text, matched, <<>>))
    IN  IF start = 0 THEN AttnPrefix \o cleaned_text
        ELSE AttnPrefix \o Strip(rest \o <<" ">> \o clean_phone_number(matched))

\* the bool clean_text_refined returns beside the text
was_attn_present(text) == StartsWith(CollapseSpaces(Strip(text)), AttnTag)

(***************************************************************************)
(* helpers.clean_text_refined and helpers.clean_phone_number, the pair     *)
(* pdf_generator imports.  The text function is the one of utils; the      *)
(* phone function keeps the ASCII digits and the extension letters only    *)
(* and wants ten digits at the front of what is left.                      *)
(***************************************************************************)
\* re.sub(r"[^0-9xXextEXT]", "", s)
RECURSIVE PhoneChars(_)
PhoneChars(s) ==
    IF Len(s) = 0 THEN <<>>
    ELSE IF s[1] \in AsciiDigits \cup ExtMarkers
         THEN <<s[1]>> \o PhoneChars(Tail(s))
         ELSE PhoneChars(Tail(s))

helpers_clean_phone_number(phone_number) ==
    LET kept == PhoneChars(phone_number)
        m == SkipWhile(kept, 11, ExtMarkers)
        d == SkipWhile(kept, m, AsciiDigits)
        extension == SubSeq(kept, m, d - 1)
        formatted == <<"(">> \o SubSeq(kept, 1, 3) \o <<")", " ">> \o SubSeq(kept, 4, 6)
                     \o <<"-">> \o SubSeq(kept, 7, 10)
    IN  IF ~DigitsAt(kept, 1, 10) THEN kept
        ELSE IF Len(extension) > 0 THEN formatted \o ExtText \o extension
        ELSE formatted

\* helpers.clean_text_refined(text)[0]
helpers_clean_text_refined(text) ==
    LET collapsed == CollapseSpaces(Strip(text))
        cleaned_text == Strip(Replace(collapsed, AttnTag, <<>>))
        start == PhoneStart(cleaned_text)
        matched == SubSeq(cleaned_text, start, PhoneEnd(cleaned_text, start))
        rest == Strip(Replace(cleaned_text, matched, <<>>))
    IN  IF start = 0 THEN AttnPrefix \o cleaned_text
        ELSE AttnPrefix \o Strip(rest \o <<" ">> \o helpers_clean_phone_number(matched))

(***************************************************************************)
(* build_data_map.py: the field map of the BOL.  An order record is a      *)
(* function from column names to texts (or None, a NULL column).           *)
(* A built map is [exc |-> "none", map |-> key -> text]; when the builder  *)
(* raises, exc is the name of the exception.                               *)
(***************************************************************************)
EmptyMap == [k \in {} |-> <<>>]

\* Python's `value or fallback` on a text or None
OrText(value, fallback) == IF value = None \/ Len(value) = 0 THEN fallback ELSE value

RecordKeys ==
    {"SSD_SHIPMENT_ID", "SSD_SHIP_TO", "SSD_SHIP_TO_2", "SSD_SHIP_TO_3", "SSD_SHIP_TO_4",
     "SSD_SHIP_TO_POSTAL"}

\* the columns generate_labels reads
LabelKeys ==
    {"SSD_SHIPMENT_ID", "SSD_SHIP_TO", "SSD_SHIP_TO_2", "SSD_SHIP_TO_4", "SSD_SHIP_TO_POSTAL"}

DescFields == <<"Desc_2", "Desc_3", "Desc_4", "Desc_5", "Desc_6", "Desc_7", "Desc_8">>

OrderNumFields == <<"OrderNum2", "OrderNum3", "OrderNum4", "OrderNum5", "OrderNum6">>

GroupSize == 3

\* dim_groups: skid_dimensions[i:i + 3] for i in range(0, len, 3); group g is 1-based
GroupCount(dims) == (Len(dims) + GroupSize - 1) \div GroupSize

DimGroup(dims, g) == Slice(dims, GroupSize * (g - 1) + 1, GroupSize * g)

NotNA(dim) == ~StartsWith(dim, NA)

FilteredGroup(dims, g) == SelectSeq(DimGroup(dims, g), NotNA)

\* populate_skid_dimensions raises IndexError: a non-empty group beyond desc_fields
DescOverflow(dims) ==
    \E g \in 1..GroupCount(dims) : g > Len(DescFields) /\ Len(FilteredGroup(dims, g)) > 0

\* the keys populate_skid_dimensions sets
build_data_map_populate_skid_dimensions(dims) ==
    LET set == {g \in 1..GroupCount(dims) :
                    g <= Len(DescFields) /\ Len(FilteredGroup(dims, g)) > 0}
    IN  [k \in {DescFields[g] : g \in set} |->
            LET g == CHOOSE h \in set : DescFields[h] = k
            IN  Join(CommaSpace, FilteredGroup(dims, g))]

\* a variant that fills the first field only
order_number_fields_first(order_nums) ==
    IF Len(order_nums) = 0 THEN EmptyMap ELSE "OrderNum1" :> order_nums[1]

\* OrderNum1..OrderNum6
order_number_fields(order_nums) ==
    LET first ==
            IF Len(order_nums) = 0 THEN EmptyMap
            ELSE "OrderNum1" :>
                    (IF Len(order_nums) > 1
                     THEN order_nums[1] \o CommaSpace \o order_nums[2]
                     ELSE order_nums[1])
        \* field i (0-based, as enumerate gives it) reads indexes 2i+2 and 2i+3
        used == {i \in 0..(Len(OrderNumFields) - 1) :
                    Len(order_nums) > 0 /\ Len(order_nums) > i * 2 + 2}
        rest == [k \in {OrderNumFields[i + 1] : i \in used} |->
                    LET i == CHOOSE j \in used : OrderNumFields[j + 1] = k
                    IN  IF Len(order_nums) > i * 2 + 3
                        THEN order_nums[i * 2 + 3] \o CommaSpace \o order_nums[i * 2 + 4]
                        ELSE order_nums[i * 2 + 3]]
    IN  first @@ rest

\* a variant in which NFF shares the fallback text of FF
carrier_fields_shared(carrier_name, quote_number, quote_price) ==
    LET sid ==
            IF carrier_name \in {FF, NFF}
            THEN ("FromSIDNum" :> (IF carrier_name = FF THEN SenderIdFF ELSE SenderIdNFF))
                 @@ ("OrderNum7" :> (IF Len(quote_number) > 0
                                     THEN QuotePrefix \o quote_number
                                     ELSE QuoteFallbackFF))
            ELSE EmptyMap
        price ==
            IF carrier_name \in {FF, NFF, FF_LOGISTICS, CRR}
            THEN "OrderNum8" :> (IF Len(quote_price) > 0 THEN Dollar \o quote_price ELSE Dollar)
            ELSE EmptyMap
    IN  sid @@ price

carrier_fields(carrier_name, quote_number, quote_price) ==
    LET sid ==
            IF carrier_name = FF
            THEN ("FromSIDNum" :> SenderIdFF)
                 @@ ("OrderNum7" :> (IF Len(quote_number) > 0
                                     THEN QuotePrefix \o quote_number
                                     ELSE QuoteFallbackFF))
            ELSE IF carrier_name = NFF
            THEN ("FromSIDNum" :> SenderIdNFF)
                 @@ ("OrderNum7" :> (IF Len(quote_number) > 0
                                     THEN QuotePrefix \o quote_number
                                     ELSE QuotePrefix))
            ELSE EmptyMap
        price ==
            IF carrier_name \in {FF, NFF, FF_LOGISTICS, CRR}
            THEN "OrderNum8" :> (IF Len(quote_price) > 0 THEN Dollar \o quote_price ELSE Dollar)
            ELSE EmptyMap
    IN  sid @@ price

build_data_map_constant_fields ==
    ("FromName" :> FromNameText) @@ ("FromAddr" :> FromAddrText)
    @@ ("FromCityStateZip" :> FromCityText) @@ ("Prepaid" :> PrepaidText)
    @@ ("Page_ttl" :> PageTtlText) @@ ("Desc_1" :> Desc1Text)
    @@ ("Pkg_Type_1" :> PkgTypeText)

QtyText(n) == IF n > 0 THEN Str(n) ELSE <<>>

handling_unit_types(skids, carpets, boxes) ==
    ("HU_Type_1" :> (IF skids > 0 THEN SkidsText ELSE <<>>))
    @@ (IF carpets > 0 THEN "HU_Type_2" :> CarpetsText ELSE EmptyMap)
    @@ (IF boxes > 0 THEN "HU_Type_3" :> BoxesText ELSE EmptyMap)

\* the first dictionary literal of prepare_data_map (build_data_map.py lines 30-49)
build_data_map_base_fields(a) ==
    ("BOLnum" :> a.result["SSD_SHIPMENT_ID"])
    @@ ("ToName" :> OrText(a.result["SSD_SHIP_TO"], UnknownName))
    @@ ("ToAddress" :> OrText(a.result["SSD_SHIP_TO_2"], UnknownAddress))
    @@ ("ToCityStateZip" :>
            (Strip(OrText(a.result["SSD_SHIP_TO_4"], UnknownCity)) \o DotSpace
             \o Strip(OrText(a.result["SSD_SHIP_TO_POSTAL"], UnknownPostal))))
    @@ ("BillInstructions" :> clean_text_refined(a.result["SSD_SHIP_TO_3"]))
    @@ ("CarrierName" :> a.carrier_name)
    @@ ("Date" :> CURRENT_DATE)
    @@ ("HU_QTY_1" :> QtyText(a.skid_count))
    @@ ("HU_QTY_2" :> QtyText(a.carpet_count))
    @@ ("HU_QTY_3" :> QtyText(a.box_count))
    @@ ("Pkg_QTY_1" :> Str(a.skid_cartons - a.carpet_count - a.box_count))
    @@ ("PRO" :> a.tracking_number)
    @@ ("WT_1" :> (IF Len(a.weight) > 0 THEN a.weight \o LbsSuffix ELSE <<>>))
    @@ ("AddInfo7" :> a.add_info_7)
    @@ ("AddInfo8" :> a.add_info_8)

Built(m) == [exc |-> "none", map |-> m]

Raised(e) == [exc |-> e, map |-> EmptyMap]

\* build_data_map.prepare_data_map; a is the record of its arguments
build_data_map_prepare_data_map(a) ==
    IF ~(RecordKeys \subseteq DOMAIN a.result) THEN Raised("KeyError")
    ELSE IF a.result["SSD_SHIP_TO_3"] = None THEN Raised("AttributeError")
    ELSE IF DescOverflow(a.skid_dimensions) THEN Raised("IndexError")
    ELSE Built(handling_unit_types(a.skid_count, a.carpet_count, a.box_count)
               @@ build_data_map_populate_skid_dimensions(a.skid_dimensions)
               @@ build_data_map_constant_fields
               @@ carrier_fields(a.carrier_name, a.quote_number, a.quote_price)
               @@ order_number_fields(a.order_numbers)
               @@ build_data_map_base_fields(a))

PcesText == <<" ", "P", "C", "E", "S", ".">>

(***************************************************************************)
(* label_generator.generate_labels: the pages of the label PDF, in order.  *)
(***************************************************************************)
LabelPage(primary, suffix) == [primary |-> primary, suffix |-> suffix]

ItemLabel(counter, total) == Str(counter) \o <<"/">> \o Str(total)

CarpetSuffix(i, carpets) == Str(i) \o <<"C", "/">> \o Str(carpets) \o <<"C">>

BoxSuffix(i, boxes) == Str(i) \o <<"B", "/">> \o Str(boxes) \o <<"B">>

\* range(n) is empty for a negative n
Range(n) == IF n > 0 THEN n ELSE 0

label_generator_generate_labels(carrier_name, skids, carpets, boxes, cartons) ==
    IF carrier_name = PARCEL_PRO
    THEN <<LabelPage(Str(cartons) \o PcesText, <<>>)>>
    ELSE LET total == skids + carpets + boxes
         IN  [i \in 1..Range(skids) |-> LabelPage(ItemLabel(i, total), <<>>)]
             \o [i \in 1..Range(carpets) |->
                    LabelPage(ItemLabel(Range(skids) + i, total), CarpetSuffix(i, carpets))]
             \o [i \in 1..Range(boxes) |->
                    LabelPage(ItemLabel(Range(skids) + Range(carpets) + i, total),
                              BoxSuffix(i, boxes))]

(***************************************************************************)
(* pdf_generator.py, the module gui.py imports for the Generate button:    *)
(* its own prepare_data_map and populate_skid_dimensions, and the labels   *)
(* generate_bol draws.  It differs from build_data_map.py and              *)
(* label_generator.py: every entry of a group is joined, "N/A" included;   *)
(* Pkg_QTY_1 is the carton count as entered; AddInfo8 is a constant and    *)
(* there is no AddInfo7; PARCEL PRO gets one page per item like any other  *)
(* carrier; the ATTN text goes through helpers.clean_text_refined.         *)
(***************************************************************************)
AddInfo8Text ==
    <<"I", "N", "S", "I", "D", "E", " ", "D", "E", "L", "I", "V", "E", "R", "Y", " ", "&", " ",
      "T", "A", "I", "L", "G", "A", "T", "E", " ", "D", "E", "L", "I", "V", "E", "R", "Y">>

\* desc_fields[i] raises IndexError for an eighth group
pdf_generator_DescOverflow(dims) == GroupCount(dims) > Len(DescFields)

\* the keys pdf_generator.populate_skid_dimensions sets
pdf_generator_populate_skid_dimensions(dims) ==
    LET set == {g \in 1..GroupCount(dims) : g <= Len(DescFields)}
    IN  [k \in {DescFields[g] : g \in set} |->
            LET g == CHOOSE h \in set : DescFields[h] = k
            IN  Join(CommaSpace, DimGroup(dims, g))]

pdf_generator_constant_fields ==
    ("FromName" :> FromNameText) @@ ("FromAddr" :> FromAddrText)
    @@ ("FromCityStateZip" :> FromCityText) @@ ("AddInfo8" :> AddInfo8Text)
    @@ ("Prepaid" :> PrepaidText) @@ ("Page_ttl" :> PageTtlText)
    @@ ("Desc_1" :> Desc1Text) @@ ("Pkg_Type_1" :> PkgTypeText)

\* the first dictionary literal of pdf_generator.prepare_data_map (lines 84-98)
pdf_generator_base_fields(a) ==
    ("BOLnum" :> a.result["SSD_SHIPMENT_ID"])
    @@ ("ToName" :> OrText(a.result["SSD_SHIP_TO"], UnknownName))
    @@ ("ToAddress" :> OrText(a.result["SSD_SHIP_TO_2"], UnknownAddress))
    @@ ("ToCityStateZip" :>
            (Strip(OrText(a.result["SSD_SHIP_TO_4"], UnknownCity)) \o DotSpace
             \o Strip(OrText(a.result["SSD_SHIP_TO_POSTAL"], UnknownPostal))))
    @@ ("BillInstructions" :> helpers_clean_text_refined(a.result["SSD_SHIP_TO_3"]))
    @@ ("CarrierName" :> a.carrier_name)
    @@ ("Date" :> CURRENT_DATE)
    @@ ("HU_QTY_1" :> QtyText(a.skid_count))
    @@ ("HU_QTY_2" :> QtyText(a.carpet_count))
    @@ ("HU_QTY_3" :> QtyText(a.box_count))
    @@ ("Pkg_QTY_1" :> Str(a.skid_cartons))
    @@ ("PRO" :> a.tracking_number)
    @@ ("WT_1" :> (IF Len(a.weight) > 0 THEN a.weight \o LbsSuffix ELSE <<>>))

\* pdf_generator.prepare_data_map; a holds its twelve arguments (the add_info fields
\* of a are not parameters of this function and are not read)
pdf_generator_prepare_data_map(a) ==
    IF ~(RecordKeys \subseteq DOMAIN a.result) THEN Raised("KeyError")
    ELSE IF a.result["SSD_SHIP_TO_3"] = None THEN Raised("AttributeError")
    ELSE IF pdf_generator_DescOverflow(a.skid_dimensions) THEN Raised("IndexError")
    ELSE Built(handling_unit_types(a.skid_count, a.carpet_count, a.box_count)
               @@ pdf_generator_populate_skid_dimensions(a.skid_dimensions)
               @@ pdf_generator_constant_fields
               @@ carrier_fields(a.carrier_name, a.quote_number, a.quote_price)
               @@ order_number_fields(a.order_numbers)
               @@ pdf_generator_base_fields(a))

\* the pages generate_bol draws (lines 362-384): one per skid, carpet and box,
\* whatever the carrier
generate_bol_labels(skids, carpets, boxes) ==
    LET total == skids + carpets + boxes
    IN  [i \in 1..Range(skids) |-> LabelPage(ItemLabel(i, total), <<>>)]
        \o [i \in 1..Range(carpets) |->
               LabelPage(ItemLabel(Range(skids) + i, total), CarpetSuffix(i, carpets))]
        \o [i \in 1..Range(boxes) |->
               LabelPage(ItemLabel(Range(skids) + Range(carpets) + i, total),
                         BoxSuffix(i, boxes))]

(***************************************************************************)
(* database.py: the order lookup.                                          *)
(***************************************************************************)
\* the rows of the mock CSV file / of table OESSOD the lookup can see
Row(id, name, addr, attn, city, postal) ==
    [k \in RecordKeys |->
        CASE k = "SSD_SHIPMENT_ID" -> id
          [] k = "SSD_SHIP_TO" -> name
          [] k = "SSD_SHIP_TO_2" -> addr
          [] k = "SSD_SHIP_TO_3" -> attn
          [] k = "SSD_SHIP_TO_4" -> city
          [] k = "SSD_SHIP_TO_POSTAL" -> postal]

\* str(v) for a text or None: the text itself, and the four letters "None" for None
PyStr(v) == IF v = None THEN <<"N", "o", "n", "e">> ELSE v

\* mock mode: str(row["SSD_SHIPMENT_ID"]).strip() == str(order_number).strip()
RowMatches(row, order_number) ==
    Strip(PyStr(row["SSD_SHIPMENT_ID"])) = Strip(PyStr(order_number))

\* odbc mode: the row the query WHERE SSD_SHIPMENT_ID = ? selects (NULL equals nothing)
RowSelected(row, order_number) ==
    row["SSD_SHIPMENT_ID"] # None /\ row["SSD_SHIPMENT_ID"] = order_number

Found(rec) == [kind |-> "record", rec |-> rec]

NotFound == [kind |-> "none", rec |-> None]

FetchRaised == [kind |-> "raise", rec |-> None]

(***************************************************************************)
(* database.fetch_order_data over the rows `table`: mock mode returns the  *)
(* first matching row of the CSV file, or None (also when the file is      *)
(* missing); odbc mode returns the matching row or None, and when the      *)
(* connection cannot be opened the finally clause of get_odbc_order_data   *)
(* closes a connection that was never bound, which raises.                 *)
(***************************************************************************)
fetch_outcomes(mode, table, order_number) ==
    LET Hits(Match(_, _)) == {i \in 1..Len(table) : Match(table[i], order_number)}
        First(hits) == CHOOSE i \in hits : \A j \in hits : i <= j
        Answer(hits) == IF hits = {} THEN {NotFound} ELSE {Found(table[First(hits)])}
    IN  IF mode = "mock" THEN Answer(Hits(RowMatches)) \cup {NotFound}
        ELSE IF mode = "odbc" THEN Answer(Hits(RowSelected)) \cup {NotFound, FetchRaised}
        ELSE {NotFound}

(***************************************************************************)
(* The Generate button and the functions behind it.                        *)
(*                                                                         *)
(* gui.select_carrier_and_generate opens with                              *)
(*     from pdf_generator import generate_bol, prepare_data_map            *)
(* and pdf_generator.py opens with `from utils import log_error, log_info, *)
(* ...`; utils.py defines neither name, so the import raises ImportError   *)
(* and the handler is left before it has logged, validated, fetched,       *)
(* built, rendered or updated anything.  bol_workflow.py imports           *)
(* pdf_generator too and cannot be loaded either.                          *)
(*                                                                         *)
(* The functions behind the import (gui.validate_inputs, helpers,          *)
(* database.fetch_order_data, build_data_map.prepare_data_map,             *)
(* label_generator.generate_labels, and pdf_generator.generate_bol as it   *)
(* runs once its import line is satisfied) are applied one call at a time: *)
(* `run` holds the arguments of the call and what it gave, pc is           *)
(* "Returned" when the call returned and "Crashed" when it raised (run.exc *)
(* names the exception).                                                   *)
(***************************************************************************)
NoRun ==
    [call |-> "none", fields_status |-> "none", skid |-> SkidResult("none", 0, 0),
     valid |-> "none", fetched |-> "none", result |-> None, carrier_name |-> <<>>,
     skid_count |-> 0, carpet_count |-> 0, box_count |-> 0, skid_cartons |-> 0,
     order_numbers |-> <<>>, quote_number |-> <<>>, quote_price |-> <<>>,
     tracking_number |-> <<>>, weight |-> <<>>, skid_dimensions |-> <<>>,
     add_info_7 |-> <<>>, add_info_8 |-> <<>>, data_map |-> EmptyMap, pages |-> <<>>,
     output |-> "none", exc |-> "none"]

ErrCarrierFields == "Invalid Input: Carrier-specific validation failed. Please check your input."

ErrSkidInvalid == "Invalid Input: Please enter a valid skid count."

ErrRestriction == "Input Restriction: Parcel Pro only accepts individual items."

ErrMismatch == "Skid Count Mismatch"

ErrCarrierInvalid == "Carrier Selection Error: Please select a valid carrier."

ErrNoOrders == "Error: Please enter at least one order number."

SkidError(status) ==
    CASE status = "invalid" -> ErrSkidInvalid
      [] status = "restriction" -> ErrRestriction
      [] status = "mismatch" -> ErrMismatch

\* the Generate button: the import of line 258 raises, nothing else is done
select_carrier_and_generate ==
    /\ pc = "Idle"
    /\ pc' = "Crashed"
    /\ run' = [NoRun EXCEPT !.call = "select_carrier_and_generate", !.exc = "ImportError"]
    /\ errors' = <<>>
    /\ UNCHANGED <<form_vars, delivery_vars, selected_date_var, db_mode, CURRENT_DATE>>

\* the dialogs gui.validate_inputs shows
validate_inputs_errors(fields_status, skid) ==
    (IF fields_status # "ok" THEN <<ErrCarrierFields>> ELSE <<>>)
    \o (IF skid.status \in {"invalid", "restriction", "mismatch"}
        THEN <<SkidError(skid.status)>> ELSE <<>>)

\* what gui.validate_inputs returns: the verdict of validate_skid_count alone
validate_inputs_result(fields_status, skid) ==
    IF skid.status = "KeyError" THEN "KeyError"
    ELSE IF skid.status = "ok" THEN "True" ELSE "False"

(***************************************************************************)
(* gui.validate_inputs() on the form as it stands: validate_carrier_fields *)
(* on the stripped entries, then validate_skid_count on the skid-count     *)
(* entry and the dimension list.  CARRIER_OPTIONS[carrier_choice] raises   *)
(* KeyError for a choice outside the table, which nothing catches.         *)
(***************************************************************************)
validate_inputs ==
    LET fields_status ==
            IF validate_carrier_fields(carrier_var, Strip(tracking_number_entry),
                                       Strip(quote_number_entry),
                                       Strip(quote_price_entry), Strip(weight_entry))
            THEN "ok" ELSE "failed"
        skid == validate_skid_count(carrier_var, skid_count_entry, skid_dimensions)
        valid == validate_inputs_result(fields_status, skid)
    IN  /\ pc = "Idle"
        /\ pc' = IF valid = "KeyError" THEN "Crashed" ELSE "Returned"
        /\ run' = [NoRun EXCEPT !.call = "validate_inputs",
                                !.fields_status = fields_status,
                                !.skid = skid,
                                !.valid = valid,
                                !.exc = IF valid = "KeyError" THEN "KeyError" ELSE "none"]
        /\ errors' = validate_inputs_errors(fields_status, skid)
        /\ UNCHANGED <<form_vars, delivery_vars, selected_date_var, db_mode, CURRENT_DATE>>

\* database.fetch_order_data(order_number) with the rows `table` in the data source
fetch_order_data(table, order_number) ==
    /\ pc = "Idle"
    /\ \E got \in fetch_outcomes(db_mode, table, order_number) :
          /\ pc' = IF got.kind = "raise" THEN "Crashed" ELSE "Returned"
          /\ run' = [NoRun EXCEPT !.call = "fetch_order_data",
                                  !.order_numbers = <<order_number>>,
                                  !.fetched = got.kind,
                                  !.result = got.rec,
                                  !.exc = IF got.kind = "raise" THEN "UnboundLocalError"
                                          ELSE "none"]
    /\ errors' = <<>>
    /\ UNCHANGED <<form_vars, delivery_vars, selected_date_var, db_mode, CURRENT_DATE>>

\* the fourteen parameters of build_data_map.prepare_data_map
BuildArgs(result, skid_count_, carpet_count_, box_count_, skid_cartons, order_numbers_, carrier_name, quote_number, quote_price, tracking_number, weight, skid_dimensions_, add_info_7, add_info_8) ==
    [result |-> result, skid_count |-> skid_count_, carpet_count |-> carpet_count_,
     box_count |-> box_count_, skid_cartons |-> skid_cartons,
     order_numbers |-> order_numbers_, carrier_name |-> carrier_name,
     quote_number |-> quote_number, quote_price |-> quote_price,
     tracking_number |-> tracking_number, weight |-> weight,
     skid_dimensions |-> skid_dimensions_, add_info_7 |-> add_info_7,
     add_info_8 |-> add_info_8]

\* the arguments a of a call, kept in run
WithArgs(call, a) ==
    [NoRun EXCEPT !.call = call, !.result = a.result, !.skid_count = a.skid_count,
                  !.carpet_count = a.carpet_count, !.box_count = a.box_count,
                  !.skid_cartons = a.skid_cartons, !.order_numbers = a.order_numbers,
                  !.carrier_name = a.carrier_name, !.quote_number = a.quote_number,
                  !.quote_price = a.quote_price, !.tracking_number = a.tracking_number,
                  !.weight = a.weight, !.skid_dimensions = a.skid_dimensions,
                  !.add_info_7 = a.add_info_7, !.add_info_8 = a.add_info_8]

\* build_data_map.prepare_data_map applied to the arguments a: the map it returns, or
\* the exception it raises
build_field_map(a) ==
    LET built == build_data_map_prepare_data_map(a)
    IN  /\ pc = "Idle"
        /\ pc' = IF built.exc # "none" THEN "Crashed" ELSE "Returned"
        /\ run' = [WithArgs("prepare_data_map", a) EXCEPT
                      !.data_map = IF built.exc # "none" THEN EmptyMap ELSE built.map,
                      !.exc = built.exc]
        /\ errors' = <<>>
        /\ UNCHANGED <<form_vars, delivery_vars, selected_date_var, db_mode, CURRENT_DATE>>

(***************************************************************************)
(* label_generator.generate_labels on arguments a: the pages drawn.  The   *)
(* shipment id is stripped (line 132), so a NULL id raises AttributeError  *)
(* (a record without one of the columns read raises KeyError);             *)
(* the first page drawn measures the receiver city (line 35, utils.py      *)
(* line 156: font.getbbox(None)), so a NULL city raises TypeError; a       *)
(* document without pages cannot be saved (ValueError), and saving the     *)
(* file can raise too (saved = FALSE).                                     *)
(***************************************************************************)
build_labels(a, saved) ==
    LET pages == label_generator_generate_labels(a.carrier_name, a.skid_count, a.carpet_count,
                                 a.box_count, a.skid_cartons)
        exc == IF "SSD_SHIPMENT_ID" \notin DOMAIN a.result THEN "KeyError"
               ELSE IF a.result["SSD_SHIPMENT_ID"] = None THEN "AttributeError"
               ELSE IF ~(LabelKeys \subseteq DOMAIN a.result) THEN "KeyError"
               ELSE IF Len(pages) > 0 /\ a.result["SSD_SHIP_TO_4"] = None
               THEN "TypeError"
               ELSE IF Len(pages) = 0 THEN "ValueError"
               ELSE IF ~saved THEN "RuntimeError"
               ELSE "none"
    IN  /\ pc = "Idle"
        /\ pc' = IF exc # "none" THEN "Crashed" ELSE "Returned"
        /\ run' = [WithArgs("generate_labels", a) EXCEPT
                      !.pages = IF exc \in {"KeyError", "AttributeError", "TypeError"} THEN <<>>
                                ELSE pages,
                      !.exc = exc]
        /\ errors' = <<>>
        /\ UNCHANGED <<form_vars, delivery_vars, selected_date_var, db_mode, CURRENT_DATE>>

(***************************************************************************)
(* pdf_generator.generate_bol on arguments a.  The shipment id is stripped *)
(* first (line 339: KeyError without the column, AttributeError for a NULL *)
(* one), then prepare_data_map builds the map and fill_pdf writes it into  *)
(* the template; fill_pdf catches what goes wrong and answers False        *)
(* (filled = FALSE), and generate_bol then returns None without labels.    *)
(* Otherwise format_city_province strips the receiver city (line 359:      *)
(* AttributeError for a NULL city), the label pages are drawn, and the     *)
(* label document is saved and both files opened: a document without pages *)
(* cannot be saved (ValueError), and saving or opening can raise too       *)
(* (saved = FALSE).  run.data_map is the map fill_pdf was given, run.pages *)
(* the pages drawn, run.output what the call returned.                     *)
(***************************************************************************)
generate_bol(a, filled, saved) ==
    LET early == IF "SSD_SHIPMENT_ID" \notin DOMAIN a.result THEN "KeyError"
                 ELSE IF a.result["SSD_SHIPMENT_ID"] = None THEN "AttributeError"
                 ELSE "none"
        built == IF early # "none" THEN Raised(early) ELSE pdf_generator_prepare_data_map(a)
        labels == generate_bol_labels(a.skid_count, a.carpet_count, a.box_count)
        exc == IF built.exc # "none" THEN built.exc
               ELSE IF ~filled THEN "none"
               ELSE IF a.result["SSD_SHIP_TO_4"] = None THEN "AttributeError"
               ELSE IF Len(labels) = 0 THEN "ValueError"
               ELSE IF ~saved THEN "RuntimeError"
               ELSE "none"
        drawn == built.exc = "none" /\ filled /\ a.result["SSD_SHIP_TO_4"] # None
    IN  /\ pc = "Idle"
        /\ pc' = IF exc # "none" THEN "Crashed" ELSE "Returned"
        /\ run' = [WithArgs("generate_bol", a) EXCEPT
                      !.data_map = IF built.exc # "none" THEN EmptyMap ELSE built.map,
                      !.pages = IF drawn THEN labels ELSE <<>>,
                      !.output = IF exc # "none" THEN "none"
                                 ELSE IF filled THEN "path" ELSE "None",
                      !.exc = exc]
        /\ errors' = <<>>
        /\ UNCHANGED <<form_vars, delivery_vars, selected_date_var, db_mode, CURRENT_DATE>>

\* the call is over (Tk has reported the exception of a handler, the operator has
\* dismissed the dialogs): the form is live again
Return ==
    /\ pc \in {"Returned", "Crashed"}
    /\ pc' = "Idle"
    /\ run' = NoRun
    /\ errors' = <<>>
    /\ UNCHANGED <<form_vars, delivery_vars, selected_date_var, db_mode, CURRENT_DATE>>

(***************************************************************************)
(* What the operator and the data source can supply.                       *)
(***************************************************************************)
DbModes == {"mock", "odbc", "sqlite"}

OrderA == <<"1", "2", "3", "4", "5", "6", "7", ".", "0", "0">>

OrderB == <<"1", "2", "3", "4", "5", "6", "7", "8">>

\* the rows the lookup can see
OrderTable ==
    <<Row(OrderA, <<"A", "c", "m", "e">>, <<"1", " ", "M", "a", "i", "n", " ", "S", "t">>, <<"A", "T", "T", "N", ":", " ", "B", "o", "b">>, <<"T", "o", "r", "o", "n", "t", "o", " ", "O", "N">>, <<"M", "1", "M", "1", "M", "1">>),
      Row(OrderB, <<>>, <<>>, <<>>, <<>>, <<>>)>>

Tables == {OrderTable}

\* raw texts typed into the order-number entry
OrderInputs == {<<"1", "2", "3", "4", "5", "6", "7">>}

\* raw texts typed into the dimension entry
DimInputs == {<<"1", "0", "1", "0", "1", "0">>}

SkidCountInputs == {<<>>, <<"1">>}

Classifications == {"Skid", "Carpet", "Box"}

\* the classifications chosen while the whole form is exercised
FormClassifications == {"Skid", "Carpet"}

\* the carriers chosen: KPS and FF
Carriers == {1, 3}

Fields(tracking, quote_number, quote_price, weight, cartons) ==
    [tracking |-> tracking, quote_number |-> quote_number, quote_price |-> quote_price,
     weight |-> weight, cartons |-> cartons]

FieldInputs ==
    {Fields(<<"T", "1">>, <<"Q", "1">>, <<"1", "0">>, <<"5">>, <<"4">>),
     Fields(<<>>, <<>>, <<>>, <<>>, <<>>)}

\* the delivery-instruction checkboxes the operator clicks
DeliveryFlags == {"Appointment"}

\* days picked in the calendar popup: month, day, two-digit year
CalendarDays == {<<1, 5, 25>>}

\* days on which the program is started: year, month, day
StartDays == {<<2026, 10, 30>>}

\* the form as gui.py constructs it
FormAtStart ==
    /\ carrier_var = 0
    /\ classification_var = "Skid"
    /\ order_numbers = <<>>
    /\ order_listbox = <<>>
    /\ skid_dimensions = <<>>
    /\ skid_listbox = <<>>
    /\ skid_count = 0
    /\ carpet_count = 0
    /\ box_count = 0
    /\ order_number_entry = <<>>
    /\ skid_dimension_entry = <<>>
    /\ skid_count_entry = <<>>
    /\ skid_cartons_entry = <<>>
    /\ tracking_number_entry = <<>>
    /\ quote_number_entry = <<>>
    /\ quote_price_entry = <<>>
    /\ weight_entry = <<>>
    /\ edit_mode = "Edit"
    /\ edit_index = 0

RestAtStart ==
    /\ inside_var = TRUE
    /\ tailgate_var = TRUE
    /\ appointment_var = FALSE
    /\ two_man_var = FALSE
    /\ white_glove_var = FALSE
    /\ CURRENT_DATE \in {strftime(d[1], d[2], d[3]) : d \in StartDays}
    /\ selected_date_var = CURRENT_DATE
    /\ db_mode \in DbModes
    /\ pc = "Idle"
    /\ run = NoRun
    /\ errors = <<>>

Init == FormAtStart /\ RestAtStart

\* the same with the mock database configured
InitForm == Init /\ db_mode = "mock"

(***************************************************************************)
(* Spec: the operator fills the form and generates, any number of times.   *)
(***************************************************************************)
Next ==
    \/ \E c \in Carriers : SelectCarrier(c)
    \/ \E k \in FormClassifications : SelectClassification(k)
    \/ \E text \in SkidCountInputs : TypeSkidCount(text)
    \/ \E f \in FieldInputs : TypeFields(f)
    \/ \E raw \in OrderInputs : add_order_number(raw)
    \/ \E raw \in DimInputs : add_skid_dimension(raw)
    \/ \E i \in 1..MaxOrders : delete_order(i)
    \/ \E i \in 1..MaxDims : delete_skid(i)
    \/ \E i \in 1..MaxOrders : edit_order(i)
    \/ \E raw \in {order_number_entry} : update_order(raw)
    \/ \E i \in 1..MaxDims : edit_skid(i)
    \/ \E raw \in {skid_dimension_entry} : update_skid(raw)
    \/ clear_contents
    \/ \E flag \in DeliveryFlags : ToggleDelivery(flag)
    \/ \E d \in CalendarDays : on_date_selected(d[1], d[2], d[3])
    \/ select_carrier_and_generate
    \/ Return

Spec == Init /\ [][Next]_vars

(***************************************************************************)
(* SpecOrders: the order-number list under every handler that touches it.  *)
(***************************************************************************)
OrderTyped ==
    {<<"1", "2", "3", "4", "5", "6", "7">>, OrderB, <<"1", "2", "3", "4", ".", "5">>,
     <<"1", "2", "a">>, <<" ", "7", "7", " ">>, <<"\t", "8", "8", "\n">>,
     <<"1", "2", "3", "-", "4", "5">>, <<"1", ".", "2", ".", "3">>, <<>>,
     <<NBSP, "9", "9", FS>>, <<"۱", "2", "3">>}

OrderRetyped ==
    {<<"1", "2", "3", "-", "4", "5">>, <<"1", "2", "3", ".">>, <<"x", "1">>,
     <<"۴", "_", "৫">>}

NextOrders ==
    \/ \E raw \in OrderTyped : add_order_number(raw)
    \/ \E i \in 1..MaxOrders : delete_order(i)
    \/ \E i \in 1..MaxOrders : edit_order(i)
    \/ \E raw \in OrderRetyped \cup {order_number_entry} : update_order(raw)
    \/ clear_contents

SpecOrders == InitForm /\ [][NextOrders]_vars

(***************************************************************************)
(* SpecDims: the dimension list under every handler that touches it.       *)
(***************************************************************************)
DimTyped ==
    {<<"1", "0", "1", "0", "1", "0">>, <<"0", "0", "0", "0", "0", "0">>, <<"a", "b", "c">>,
     <<"1", " ", "(", "B", ")">>, <<NBSP, "۲", "0", "x", "2", "0", "x", "২", "0", VT>>}

DimRetyped == {<<"1", "x", "2", "x", "3">>}

\* KPS, PARCEL PRO and FF
DimCarriers == {1, 2, 3}

NextDims ==
    \/ \E c \in DimCarriers : SelectCarrier(c)
    \/ \E k \in Classifications : SelectClassification(k)
    \/ \E raw \in DimTyped : add_skid_dimension(raw)
    \/ \E i \in 1..MaxDims : delete_skid(i)
    \/ \E i \in 1..MaxDims : edit_skid(i)
    \/ \E raw \in DimRetyped \cup {skid_dimension_entry} : update_skid(raw)
    \/ clear_contents

SpecDims == InitForm /\ [][NextDims]_vars

(***************************************************************************)
(* SpecLists: both lists under add, edit, update, delete and clear, in any *)
(* interleaving; the carrier stays unselected and the classification is    *)
(* the one the form starts with or the one an edit restores.               *)
(***************************************************************************)
ListOrderTyped == {<<"1", "2", "3", "4", "5", "6", "7">>, <<"1", "2", "a">>, <<"۱", "2", "3">>}

ListOrderRetyped == {<<"1", "2", "3", "-", "4", "5">>}

ListDimTyped ==
    {<<"1", "0", "1", "0", "1", "0">>, <<"a", "b", "c">>, <<"۱", "۲", "۳", "۴", "۵", "۶">>}

ListDimRetyped == {<<"1", "x", "2", "x", "3">>}

NextLists ==
    \/ \E raw \in ListOrderTyped : add_order_number(raw)
    \/ \E raw \in ListDimTyped : add_skid_dimension(raw)
    \/ \E i \in 1..MaxOrders : delete_order(i)
    \/ \E i \in 1..MaxDims : delete_skid(i)
    \/ \E i \in 1..MaxOrders : edit_order(i)
    \/ \E i \in 1..MaxDims : edit_skid(i)
    \/ \E raw \in ListOrderRetyped \cup {order_number_entry} : update_order(raw)
    \/ \E raw \in ListDimRetyped \cup {skid_dimension_entry} : update_skid(raw)
    \/ clear_contents

SpecLists == InitForm /\ [][NextLists]_vars

(***************************************************************************)
(* SpecCount: the dimension list under add, edit, update, delete and       *)
(* clear with every classification, while the operator may type a count of *)
(* his own in the skid-count entry.  The carrier stays unselected.         *)
(***************************************************************************)
CountTyped == {<<"7">>, <<"۷">>}

NextCount ==
    \/ \E k \in Classifications : SelectClassification(k)
    \/ \E text \in CountTyped : TypeSkidCount(text)
    \/ \E raw \in ListDimTyped : add_skid_dimension(raw)
    \/ \E i \in 1..MaxDims : delete_skid(i)
    \/ \E i \in 1..MaxDims : edit_skid(i)
    \/ \E raw \in ListDimRetyped \cup {skid_dimension_entry} : update_skid(raw)
    \/ clear_contents

SpecCount == InitForm /\ [][NextCount]_vars

(***************************************************************************)
(* SpecValidate: validate_inputs on every carrier choice, skid-count text  *)
(* and dimension list of a small set.  The form starts filled in.          *)
(***************************************************************************)
PlainDim == <<"1", "0", "x", "1", "0", "x", "1", "0">>

CarpetDim == <<"2", "0", "x", "2", "0", "x", "2", "0", " ", "(", "C", ")">>

BoxDim == <<"3", "0", "x", "3", "0", "x", "3", "0", " ", "(", "B", ")">>

ValidateDimLists ==
    {<<>>, <<PlainDim>>, <<CarpetDim>>, <<PlainDim, PlainDim>>,
     <<PlainDim, CarpetDim, BoxDim>>}

\* skid-count texts int() accepts, with their values, and texts it rejects
DeclaredCount ==
    (<<"0">> :> 0) @@ (<<"1">> :> 1) @@ (<<"2">> :> 2) @@ (<<" ", "1", " ">> :> 1)
    @@ (<<"\t", "2", "\n">> :> 2) @@ (<<"-", "1">> :> (0 - 1))
    @@ (<<NBSP, "1", VT>> :> 1) @@ (<<NEL, "2", OGHAM_SPACE>> :> 2)
    @@ (<<"۲">> :> 2) @@ (<<"০", "1">> :> 1)

IntegerTexts == DOMAIN DeclaredCount

OtherTexts == {<<>>, <<"a", "b", "c">>, <<"1", ".", "5">>, <<FS, "1">>, <<"1", US>>, <<"²">>}

\* a form holding the dimension list dims, each entry added once and none deleted
FormHolding(dims) ==
    /\ classification_var = "Skid"
    /\ skid_dimensions = dims
    /\ skid_listbox = dims
    /\ skid_count = CountIf(dims, IsPlainSkid)
    /\ order_number_entry = <<>>
    /\ skid_dimension_entry = <<>>
    /\ tracking_number_entry = <<>>
    /\ quote_number_entry = <<>>
    /\ quote_price_entry = <<>>
    /\ weight_entry = <<"5">>
    /\ skid_cartons_entry = <<"4">>
    /\ edit_mode = "Edit"
    /\ edit_index = 0

InitValidate ==
    /\ carrier_var \in {0} \cup DOMAIN CARRIER_OPTIONS
    /\ \E dims \in ValidateDimLists :
          /\ FormHolding(dims)
          /\ carpet_count = CountIf(dims, IsCarpet)
          /\ box_count = CountIf(dims, IsBox)
    /\ skid_count_entry \in IntegerTexts \cup OtherTexts
    /\ order_numbers \in {<<>>, <<OrderA>>}
    /\ order_listbox = order_numbers
    /\ RestAtStart

NextValidate ==
    \/ validate_inputs
    \/ Return

SpecValidate == InitValidate /\ [][NextValidate]_vars

(***************************************************************************)
(* SpecBuild: fetch_order_data over every database mode, tables with       *)
(* blank, NULL and missing columns and several order numbers, and          *)
(* prepare_data_map over the rows of these tables and dimension lists of   *)
(* several lengths.                                                        *)
(***************************************************************************)
BuildLengths == {0, 3, 21, 22}

\* a row without the postal-code column
ShortRow ==
    [k \in RecordKeys \ {"SSD_SHIP_TO_POSTAL"} |->
        IF k = "SSD_SHIPMENT_ID" THEN OrderA ELSE <<>>]

\* one-row tables: a complete row, rows with one column blank or NULL, a blank row,
\* a row whose shipment id is NULL
RecordTables ==
    {<<Row(OrderA, <<"A", "c", "m", "e">>, <<"1", " ", "M", "a", "i", "n", " ", "S", "t">>, <<"A", "T", "T", "N", ":", " ", "B", "o", "b">>, <<"T", "o", "r", "o", "n", "t", "o", " ", "O", "N">>, <<"M", "1", "M", "1", "M", "1">>)>>,
     <<Row(OrderA, <<>>, <<"1", " ", "M", "a", "i", "n", " ", "S", "t">>, <<"A", "T", "T", "N", ":", " ", "B", "o", "b">>, <<"T", "o", "r", "o", "n", "t", "o", " ", "O", "N">>, <<"M", "1", "M", "1", "M", "1">>)>>,
     <<Row(OrderA, None, <<"1", " ", "M", "a", "i", "n", " ", "S", "t">>, <<"A", "T", "T", "N", ":", " ", "B", "o", "b">>, <<"T", "o", "r", "o", "n", "t", "o", " ", "O", "N">>, <<"M", "1", "M", "1", "M", "1">>)>>,
     <<Row(OrderA, <<"A", "c", "m", "e">>, None, <<"A", "T", "T", "N", ":", " ", "B", "o", "b">>, <<"T", "o", "r", "o", "n", "t", "o", " ", "O", "N">>, <<"M", "1", "M", "1", "M", "1">>)>>,
     <<Row(OrderA, <<"A", "c", "m", "e">>, <<"1", " ", "M", "a", "i", "n", " ", "S", "t">>, <<>>, <<"T", "o", "r", "o", "n", "t", "o", " ", "O", "N">>, <<"M", "1", "M", "1", "M", "1">>)>>,
     <<Row(OrderA, <<"A", "c", "m", "e">>, <<"1", " ", "M", "a", "i", "n", " ", "S", "t">>, None, <<"T", "o", "r", "o", "n", "t", "o", " ", "O", "N">>, <<"M", "1", "M", "1", "M", "1">>)>>,
     <<Row(OrderA, <<"A", "c", "m", "e">>, <<"1", " ", "M", "a", "i", "n", " ", "S", "t">>, <<"B", "O", "B", "\n", "4", "1", "6", " ", "5", "5", "5", "\t", "1", "2", "3", "4">>, <<"T", "o", "r", "o", "n", "t", "o", " ", "O", "N">>, <<"M", "1", "M", "1", "M", "1">>)>>,
     <<Row(OrderA, <<"A", "c", "m", "e">>, <<"1", " ", "M", "a", "i", "n", " ", "S", "t">>, <<"A", "T", "T", "N", ":", " ", "B", "o", "b">>, <<" ", " ">>, <<"M", "1", "M", "1", "M", "1">>)>>,
     <<Row(OrderA, <<"A", "c", "m", "e">>, <<"1", " ", "M", "a", "i", "n", " ", "S", "t">>, <<"A", "T", "T", "N", ":", " ", "B", "o", "b">>, None, <<"M", "1", "M", "1", "M", "1">>)>>,
     <<Row(OrderA, <<"A", "c", "m", "e">>, <<"1", " ", "M", "a", "i", "n", " ", "S", "t">>, <<"A", "T", "T", "N", ":", " ", "B", "o", "b">>, <<"T", "o", "r", "o", "n", "t", "o", " ", "O", "N">>, <<>>)>>,
     <<Row(OrderA, <<"A", "c", "m", "e">>, <<"1", " ", "M", "a", "i", "n", " ", "S", "t">>, <<"B", "o", "b", NBSP, "S", "m", "i", "t", "h">>, <<NBSP, "T", "o", "r", "o", "n", "t", "o">>, <<"M", "1", "M", " ", "1", "M", "1", VT>>)>>,
     <<Row(OrderA, <<"A", "c", "m", "e">>, <<"1", " ", "M", "a", "i", "n", " ", "S", "t">>, <<"4", "1", "6", NBSP, "5", "5", "5", FS, "1", "2", "3", "4">>, <<"T", "o", "r", "o", "n", "t", "o", " ", "O", "N">>, <<"M", "1", "M", "1", "M", "1">>)>>,
     <<Row(OrderA, <<>>, <<>>, <<>>, <<>>, <<>>)>>,
     <<Row(None, <<"A", "c", "m", "e">>, <<>>, <<>>, <<>>, <<>>)>>,
     <<ShortRow>>}

\* order numbers looked up: one of the table as it is stored and between whitespace
\* (a space and a newline, a no-break space and a file separator),
\* one that is in no table, and the four letters "None"
LookupNumbers ==
    {OrderA, <<" ">> \o OrderA \o <<"\n">>, <<NBSP>> \o OrderA \o <<FS>>, OrderB,
     <<"N", "o", "n", "e">>}

BuildCarriers == {KPS, FF}

BuildCounts == 0..1

\* the arguments prepare_data_map is given
BuildInputs ==
    {BuildArgs(table[1], n, c, b, 4, <<OrderA>>, name, <<"Q", "1">>, <<"1", "0">>, OrderA, <<"5">>, [i \in 1..n |-> PlainDim], <<>>, <<>>) :
        table \in RecordTables, n \in BuildLengths, c \in BuildCounts, b \in BuildCounts,
        name \in BuildCarriers}

NextBuild ==
    \/ \E table \in RecordTables : \E number \in LookupNumbers :
          fetch_order_data(table, number)
    \/ \E a \in BuildInputs : build_field_map(a)
    \/ Return

SpecBuild == Init /\ [][NextBuild]_vars

(***************************************************************************)
(* SpecNormalize: dimensions of many shapes are added with KPS or FF       *)
(* selected.                                                               *)
(***************************************************************************)
DimShapes ==
    {<<"1", "0", "1", "0", "1", "0">>,
     <<"1", "x", "2", "x", "3">>,
     <<"1", "-", "-", "2", " ", "3">>,
     <<" ", "1", "x", "2", "x", "3", " ">>,
     <<"1", "x", "2">>,
     <<"1", "x", "2", "x", "3", "x", "4">>,
     <<"x", "1", "x", "2", "x", "3">>,
     <<"1", "x", "2", "x", "3", "x">>,
     <<>>,
     <<"a", "b", "c">>,
     <<"1", "2", "3", "4", "5", "6", "7">>,
     <<NBSP, "1", "x", "2", "x", "3", US>>,
     <<"1", NBSP, "2", NEL, "3">>,
     <<VT, "1", "0", "1", "0", "1", "0">>,
     <<"۱", "۲", "۳", "۴", "۵", "۶">>,
     <<"۱", "x", "২", "x", "3">>,
     <<"²", "x", "2", "x", "3">>}

\* KPS and FF
NormCarriers == {1, 3}

NextNormalize ==
    \/ \E c \in NormCarriers : SelectCarrier(c)
    \/ \E k \in Classifications : SelectClassification(k)
    \/ \E raw \in DimShapes : add_skid_dimension(raw)
    \/ clear_contents

SpecNormalize == InitForm /\ [][NextNormalize]_vars

(***************************************************************************)
(* SpecCarrierFields: the carrier fields hold texts of many shapes when    *)
(* validate_inputs is called or Generate is pressed, for every carrier     *)
(* choice.                                                                 *)
(***************************************************************************)
TrackingTexts ==
    {<<>>, <<"T", "1">>, <<"T", "-", "1">>, <<" ", "T", "1", " ">>, <<"T", "1", "\n">>,
     <<NBSP, "T", "1", US>>, <<"T", "۱">>}

QuoteNumberTexts == {<<>>, <<"Q", "1">>, <<"Q", " ", "1">>, <<"Q", "۱">>}

QuotePriceTexts ==
    {<<>>, <<"1", "0">>, <<"1", ".", "5">>, <<"a", "b", "c">>, <<"1", "e", "3">>,
     <<"n", "a", "n">>, <<"۱", ".", "৫">>}

WeightTexts == {<<>>, <<"5">>, <<"a", "b", "c">>, <<"5", " ", "l", "b", "s">>, <<"\t", "5", "\n">>,
     <<NBSP, "5", RS>>, <<"۵">>}

CarrierChoices == {0} \cup DOMAIN CARRIER_OPTIONS

InitCarrierFields ==
    /\ carrier_var \in CarrierChoices
    /\ classification_var = "Skid"
    /\ order_numbers = <<OrderA>>
    /\ order_listbox = order_numbers
    /\ skid_dimensions = <<>>
    /\ skid_listbox = <<>>
    /\ skid_count = 0
    /\ carpet_count = 0
    /\ box_count = 0
    /\ order_number_entry = <<>>
    /\ skid_dimension_entry = <<>>
    /\ skid_count_entry = <<"0">>
    /\ skid_cartons_entry = <<"4">>
    /\ tracking_number_entry \in TrackingTexts
    /\ quote_number_entry \in QuoteNumberTexts
    /\ quote_price_entry \in QuotePriceTexts
    /\ weight_entry \in WeightTexts
    /\ edit_mode = "Edit"
    /\ edit_index = 0
    /\ RestAtStart
    /\ db_mode = "mock"

NextCarrierFields ==
    \/ validate_inputs
    \/ select_carrier_and_generate
    \/ Return

SpecCarrierFields == InitCarrierFields /\ [][NextCarrierFields]_vars

(***************************************************************************)
(* SpecFields: the two builders of the repository over up to thirteen     *)
(* order numbers, dimension lists with "N/A" entries, every carrier name   *)
(* of the table and a custom one, and counts that need not agree with the  *)
(* list: build_data_map.prepare_data_map and label_generator's             *)
(* generate_labels, and pdf_generator.generate_bol, which builds its own   *)
(* map and draws its own labels.  An "N/A (C)" entry is what PARCEL PRO    *)
(* stores for the raw text "N/A" with classification Carpet.  A skid count *)
(* of -1 is what KPS lets through (its count is not compared with the      *)
(* list); order numbers and the ATTN column may hold decimal digits of     *)
(* other scripts.                                                          *)
(***************************************************************************)
\* the i-th order number, eight characters long
OrderNumber(i) == <<"1", "0", "0", "0", "0", "0">> \o Pad2(i)

FieldOrderCounts == {1, 2, 3, 5, 12, 13}

NACarpet == <<"N", "/", "A", " ", "(", "C", ")">>

NABox == <<"N", "/", "A", " ", "(", "B", ")">>

FieldDimLists ==
    {<<PlainDim, CarpetDim, BoxDim>>,
     <<PlainDim, PlainDim, PlainDim, NACarpet, NACarpet, NABox, PlainDim>>,
     <<NACarpet, PlainDim, NABox, PlainDim>>,
     [i \in 1..21 |-> PlainDim],
     [i \in 1..22 |-> IF i = 22 THEN NACarpet ELSE PlainDim],
     [i \in 1..22 |-> PlainDim]}

\* the two lists of a call: several order numbers, or several dimension entries
\* an order number as add_order_number stores it for the entry "۱23"
PersianOrder == <<"۱", "2", "3", ".", "0", "0">>

FieldForms ==
    {[orders |-> [i \in 1..n |-> OrderNumber(i)], dims |-> <<>>] : n \in FieldOrderCounts}
    \cup {[orders |-> <<PersianOrder, OrderNumber(2), OrderNumber(3)>>, dims |-> <<>>]}
    \cup {[orders |-> <<OrderNumber(1)>>, dims |-> dims] : dims \in FieldDimLists}

FieldCarriers == {KPS, PARCEL_PRO, FF, NFF, FF_LOGISTICS, CRR, <<"U", "P", "S">>}

FieldQuoteNumbers == {<<>>, <<"Q", "1">>}

\* the same with a quote number that holds a digit of another script
WideQuoteNumbers == FieldQuoteNumbers \cup {<<"Q", "۱">>}

FieldSkidCounts == {0, 2}

\* the skid counts of the label calls
LabelSkidCounts == {-1, 0, 1, 2}

FieldCarpetCounts == 0..3

FieldBoxCounts == 0..2

FieldCartons == {4, 12}

FieldRecord ==
    Row(OrderNumber(1), <<"A", "c", "m", "e">>, <<"1", " ", "M", "a", "i", "n", " ", "S", "t">>, <<"A", "T", "T", "N", ":", " ", "B", "o", "b">>, <<"T", "o", "r", "o", "n", "t", "o", " ", "O", "N">>, <<"M", "1", "M", "1", "M", "1">>)

\* the same row with a NULL city
FieldRecordNoCity ==
    Row(OrderNumber(1), <<"A", "c", "m", "e">>, <<"1", " ", "M", "a", "i", "n", " ", "S", "t">>, <<"A", "T", "T", "N", ":", " ", "B", "o", "b">>, None, <<"M", "1", "M", "1", "M", "1">>)

\* the same row with a telephone number written with digits of two scripts
FieldRecordPhone ==
    Row(OrderNumber(1), <<"A", "c", "m", "e">>, <<"1", " ", "M", "a", "i", "n", " ", "S", "t">>, <<"A", "l", " ", "۴", "1", "6", "-", "5", "5", "5", "-", "0", "1", "9", "9", "0", "x", "1", "2">>, <<"T", "o", "r", "o", "n", "t", "o", " ", "O", "N">>, <<"M", "1", "M", "1", "M", "1">>)

FieldAddInfo7 == <<"I", "n", "s", "i", "d", "e", ",">>

FieldAddInfo8 == <<"T", "a", "i", "l", "g", "a", "t", "e", " ", "D", "e", "l", "i", "v", "e", "r", "y">>

\* the arguments prepare_data_map is given
MapInputs ==
    {BuildArgs(FieldRecord, s, c, b, k, f.orders, name, q, <<"1", "0">>, <<"T", "1">>, <<"5">>, f.dims, FieldAddInfo7, FieldAddInfo8) :
        s \in FieldSkidCounts, c \in FieldCarpetCounts, b \in FieldBoxCounts,
        k \in FieldCartons, f \in FieldForms, name \in FieldCarriers,
        q \in FieldQuoteNumbers}
    \cup {BuildArgs(FieldRecordPhone, 2, 1, 1, 4, <<PersianOrder>>, name, q, <<"1", "0">>, <<"T", "۱">>, <<"۵">>, <<PlainDim>>, FieldAddInfo7, FieldAddInfo8) :
            name \in FieldCarriers, q \in WideQuoteNumbers}

\* the arguments generate_labels is given (it has no add_info parameters)
LabelInputs ==
    {BuildArgs(rec, s, c, b, k, <<OrderNumber(1)>>, name, <<>>, <<>>, <<"T", "1">>, <<"5">>, <<>>, <<>>, <<>>) :
        rec \in {FieldRecord, FieldRecordNoCity}, s \in LabelSkidCounts,
        c \in FieldCarpetCounts, b \in FieldBoxCounts, k \in FieldCartons,
        name \in FieldCarriers}

\* the arguments generate_bol is given (it has no add_info parameters either)
BolInputs ==
    {BuildArgs(FieldRecord, s, c, b, k, f.orders, name, <<>>, <<"1", "0">>, <<"T", "1">>, <<"5">>, f.dims, <<>>, <<>>) :
        s \in FieldSkidCounts, c \in {0, 1}, b \in {0, 1}, k \in FieldCartons,
        f \in FieldForms, name \in FieldCarriers}
    \cup {BuildArgs(FieldRecordPhone, 2, 1, 1, 4, <<PersianOrder>>, name, q, <<"1", "0">>, <<"T", "۱">>, <<"۵">>, <<PlainDim>>, <<>>, <<>>) :
            name \in FieldCarriers, q \in WideQuoteNumbers}
    \cup LabelInputs

NextFields ==
    \/ \E a \in MapInputs : build_field_map(a)
    \/ \E a \in LabelInputs : \E saved \in BOOLEAN : build_labels(a, saved)
    \/ \E a \in BolInputs : \E filled, saved \in BOOLEAN : generate_bol(a, filled, saved)
    \/ Return

SpecFields == InitForm /\ [][NextFields]_vars

(***************************************************************************)
(* Properties of the Generate button (checked under Spec and               *)
(* SpecCarrierFields) and of validate_inputs.                              *)
(***************************************************************************)
\* the dialog e is among those shown (show_error_message also logs it)
Shown(e) == \E i \in 1..Len(errors) : errors[i] = e

\* select_carrier_and_generate was triggered and has returned or was left by an exception
RunEnded == run.call = "select_carrier_and_generate" /\ pc \in {"Returned", "Crashed"}

\* validate_inputs has made its two checks and one of them failed
ValidationFailed ==
    /\ run.call = "validate_inputs"
    /\ \/ run.fields_status = "failed"
       \/ run.skid.status \in {"invalid", "restriction", "mismatch"}

\* C1: when carrier-field validation or the skid-count cross-check fails, the run halts
\* at once: validate_inputs does not answer True, the one answer on which
\* select_carrier_and_generate goes on to the fetch, the build, the renders and the
\* updates.
C1_InvalidInputHalts ==
    ValidationFailed => run.valid # "True"

\* the form passes both validations, its carrier is in the table, its carton count is
\* an integer, its order list is not empty and its first number has a row
C4_Preconditions ==
    /\ carrier_var \in DOMAIN CARRIER_OPTIONS \ {7}
    /\ validate_carrier_fields(carrier_var, Strip(tracking_number_entry),
                               Strip(quote_number_entry), Strip(quote_price_entry),
                               Strip(weight_entry))
    /\ validate_skid_count(carrier_var, skid_count_entry, skid_dimensions).status = "ok"
    /\ IsIntText(Strip(skid_cartons_entry))
    /\ Len(order_numbers) > 0
    /\ \E table \in Tables : \E i \in 1..Len(table) : RowMatches(table[i], order_numbers[1])

\* C4: a run with a valid carrier, inputs passing every validation and a non-empty
\* order list whose first number is found does not end in an error or an exception:
\* its handler returns, having rendered the documents and issued the updates.
C4_ValidRunCompletes ==
    (RunEnded /\ C4_Preconditions) => (pc = "Returned" /\ run.exc = "none")

\* C5: the carpet count and the box count the handler hands on when generation is
\* triggered (the module counters carpet_count and box_count) equal the number of
\* "(C)" entries and of "(B)" entries of the dimension list at that time.
C5_CountsFromList ==
    run.call = "select_carrier_and_generate" =>
       /\ carpet_count = CountIf(skid_dimensions, IsCarpet)
       /\ box_count = CountIf(skid_dimensions, IsBox)

\* C8: a run triggered with an empty order-number list ends with the error "Please
\* enter at least one order number" shown, and with no exception.
C8_EmptyListReported ==
    (RunEnded /\ Len(order_numbers) = 0) =>
       (pc = "Returned" /\ Shown(ErrNoOrders) /\ run.exc = "none")

\* C21: a run started with no carrier selected, or with the custom-carrier option
\* and no carrier name, ends with a Carrier Selection error shown; it is not left by
\* an exception without a message.
C21_CarrierErrorReported ==
    (RunEnded /\ (carrier_var \notin DOMAIN CARRIER_OPTIONS \/ carrier_var = 7)) =>
       /\ carrier_var \notin DOMAIN CARRIER_OPTIONS => Shown(ErrCarrierInvalid)
       /\ ~(pc = "Crashed" /\ errors = <<>>)

\* C24: a run on a valid form builds the field map and hands that map, unchanged, to
\* the template fill: when its handler is over a field map has been built.
C24_MapPassedWhole ==
    (RunEnded /\ C4_Preconditions) =>
       (pc = "Returned" /\ run.data_map # EmptyMap)

(***************************************************************************)
(* Properties of the two lists (checked under SpecOrders and SpecDims).    *)
(***************************************************************************)
\* C6: every entry of the order-number list is a run of digits, optionally followed
\* by exactly one period and one or two digits.
C6_OrderEntriesWellFormed ==
    \A i \in 1..Len(order_numbers) : OrderShape(order_numbers[i])

EndsWith(s, p) == Len(s) >= Len(p) /\ SubSeq(s, Len(s) - Len(p) + 1, Len(s)) = p

\* a dimension entry without its classification suffix
WithoutSuffix(entry) ==
    IF EndsWith(entry, SuffixC) \/ EndsWith(entry, SuffixB)
    THEN SubSeq(entry, 1, Len(entry) - Len(SuffixC))
    ELSE entry

\* "LxWxH" with three positive integer components
ThreePositive(text) ==
    LET parts == SplitNonDigits(text)
    IN  /\ Len(parts) = 3
        /\ \A k \in 1..3 : IsDigitStr(parts[k]) /\ NatVal(parts[k]) > 0
        /\ text = parts[1] \o <<"x">> \o parts[2] \o <<"x">> \o parts[3]

\* C7: every entry of the dimension list is "N/A" or three positive integers joined
\* by "x", optionally followed by exactly one suffix " (C)" or " (B)" at its end.
C7_DimensionEntriesWellFormed ==
    \A i \in 1..Len(skid_dimensions) :
        LET core == WithoutSuffix(skid_dimensions[i])
        IN  core = NA \/ ThreePositive(core)

(***************************************************************************)
(* Properties of validate_skid_count (checked under SpecValidate).         *)
(***************************************************************************)
\* validate_inputs has called validate_skid_count
SkidCountChecked == run.call = "validate_inputs"

\* the number of entries that contain neither "(C)" nor "(B)"
PlainEntries ==
    Cardinality({k \in 1..Len(skid_dimensions) :
                    ~Contains(skid_dimensions[k], TagC)
                    /\ ~Contains(skid_dimensions[k], TagB)})

\* the name of the selected carrier; a choice outside the table has the name ""
ChosenCarrier ==
    IF carrier_var \in DOMAIN CARRIER_OPTIONS THEN CARRIER_OPTIONS[carrier_var] ELSE <<>>

\* C9: for every carrier choice, skid-count text and dimension list the check
\* succeeds exactly when the carrier is PARCEL PRO with an empty list, or is KPS, or
\* is any other one and the declared count equals the number of entries that hold
\* neither "(C)" nor "(B)"; a mismatch reports the pair (declared, actual).
C9_AcceptedExactlyWhen ==
    SkidCountChecked =>
       /\ run.skid.status = "ok" <=>
             \/ ChosenCarrier = PARCEL_PRO /\ Len(skid_dimensions) = 0
             \/ ChosenCarrier = KPS
             \/ /\ ChosenCarrier \notin {PARCEL_PRO, KPS}
                /\ skid_count_entry \in IntegerTexts
                /\ DeclaredCount[skid_count_entry] = PlainEntries
       /\ run.skid.status = "mismatch" =>
             /\ skid_count_entry \in IntegerTexts
             /\ run.skid.declared = DeclaredCount[skid_count_entry]
             /\ run.skid.actual = PlainEntries

(***************************************************************************)
(* Properties of prepare_data_map (checked under SpecBuild).               *)
(***************************************************************************)
\* a column that is missing (NULL) or blank
Blank(value) == value = None \/ Len(value) = 0

\* C10: prepare_data_map never fails, whatever ship-to columns are missing or blank
\* and however long the dimension list is, and the map it returns holds the
\* fallback texts in place of a blank name, address, city or postal code.
C10_BuilderNeverFails ==
    run.call = "prepare_data_map" =>
       LET rec == run.result
       IN  /\ run.exc = "none"
           /\ pc = "Returned"
           /\ run.data_map["ToName"] =
                 IF Blank(rec["SSD_SHIP_TO"]) THEN UnknownName ELSE rec["SSD_SHIP_TO"]
           /\ run.data_map["ToAddress"] =
                 IF Blank(rec["SSD_SHIP_TO_2"]) THEN UnknownAddress
                 ELSE rec["SSD_SHIP_TO_2"]
           /\ run.data_map["ToCityStateZip"] =
                 (IF Blank(rec["SSD_SHIP_TO_4"]) THEN UnknownCity
                  ELSE Strip(rec["SSD_SHIP_TO_4"]))
                 \o DotSpace
                 \o (IF Blank(rec["SSD_SHIP_TO_POSTAL"]) THEN UnknownPostal
                     ELSE Strip(rec["SSD_SHIP_TO_POSTAL"]))

(***************************************************************************)
(* Properties of the field map (checked under SpecFields).                 *)
(***************************************************************************)
\* a field map has been built: build_data_map.prepare_data_map has returned it, or
\* generate_bol has built the one it fills the BOL with
MapBuilt ==
    \/ run.call = "prepare_data_map" /\ pc = "Returned"
    \/ run.call = "generate_bol" /\ DOMAIN run.data_map # {}

\* the entries of the g-th group of three of the list
GroupEntries(dims, g) ==
    [j \in 1..(IF Len(dims) >= 3 * g THEN 3 ELSE Len(dims) - 3 * (g - 1)) |->
        dims[3 * (g - 1) + j]]

\* the entries of a group that do not start with "N/A"
KeptEntries(dims, g) ==
    SelectSeq(GroupEntries(dims, g),
              LAMBDA e : ~(Len(e) >= 3 /\ e[1] = "N" /\ e[2] = "/" /\ e[3] = "A"))

\* one to three texts joined by a comma and a space
Listed(es) ==
    IF Len(es) = 1 THEN es[1]
    ELSE IF Len(es) = 2 THEN es[1] \o <<",", " ">> \o es[2]
    ELSE es[1] \o <<",", " ">> \o es[2] \o <<",", " ">> \o es[3]

\* C11: in every field map built, description field i (Desc_2..Desc_8 for groups
\* 1..7 of three entries) holds the entries of group i that do not start with "N/A",
\* joined by commas; a group that is missing or whose entries all start with "N/A"
\* leaves its field absent, and the groups after it keep their own fields.  (The map
\* of build_data_map.py is built so; the map generate_bol fills the BOL with joins
\* every entry of a group, "N/A" entries included.)
C11_DescFieldsByGroup ==
    MapBuilt =>
       \A g \in 1..7 :
          LET field == <<"Desc_2", "Desc_3", "Desc_4", "Desc_5", "Desc_6", "Desc_7",
                         "Desc_8">>[g]
              present == 3 * (g - 1) < Len(run.skid_dimensions)
                         /\ Len(KeptEntries(run.skid_dimensions, g)) > 0
          IN  IF present
              THEN /\ field \in DOMAIN run.data_map
                   /\ run.data_map[field] = Listed(KeptEntries(run.skid_dimensions, g))
              ELSE field \notin DOMAIN run.data_map

\* order-number field k of the map, k in 1..6
OrderField(k) ==
    <<"OrderNum1", "OrderNum2", "OrderNum3", "OrderNum4", "OrderNum5", "OrderNum6">>[k]

\* fields 1..6 hold the numbers two by two, joined by sep; numbers 13.. are in none
OrderFieldsPacked(sep) ==
    MapBuilt =>
       \A k \in 1..6 :
          LET n == Len(run.order_numbers)
          IN  IF n >= 2 * k
              THEN /\ OrderField(k) \in DOMAIN run.data_map
                   /\ run.data_map[OrderField(k)] =
                         run.order_numbers[2 * k - 1] \o sep \o run.order_numbers[2 * k]
              ELSE IF n = 2 * k - 1
              THEN /\ OrderField(k) \in DOMAIN run.data_map
                   /\ run.data_map[OrderField(k)] = run.order_numbers[2 * k - 1]
              ELSE OrderField(k) \notin DOMAIN run.data_map

\* C12 (as stated): in every field map built, order-number field k holds numbers
\* 2k-1 and 2k joined by "," when both exist, number 2k-1 alone when it is the last,
\* and is absent otherwise.
C12_OrderFieldsCommaJoined == OrderFieldsPacked(<<",">>)

\* C12 (amended): the same with the two numbers joined by a comma and a space; the
\* numbers at positions 13 and beyond are in no field and the map is still built.
\* It holds of the map of build_data_map.py and of the one generate_bol builds.
C12_OrderFieldsPacked == OrderFieldsPacked(<<",", " ">>)

\* a map built from thirteen order numbers: the sixth field holds numbers 11 and 12
C12_ThirteenNumbers ==
    /\ MapBuilt
    /\ Len(run.order_numbers) = 13
    /\ run.data_map["OrderNum6"] = OrderNumber(11) \o <<",", " ">> \o OrderNumber(12)
    /\ \A k \in DOMAIN run.data_map :
          \A i \in 1..(Len(run.data_map[k]) - 7) :
             Slice(run.data_map[k], i, i + 7) # OrderNumber(13)

(***************************************************************************)
(* Properties of the label pages (checked under SpecFields).               *)
(***************************************************************************)
\* a number below 100 in decimal
Dec(n) ==
    LET d == <<"0", "1", "2", "3", "4", "5", "6", "7", "8", "9">>
    IN  IF n < 10 THEN <<d[n + 1]>> ELSE <<d[(n \div 10) + 1], d[(n % 10) + 1]>>

\* the labels have been drawn and saved, by label_generator.generate_labels or by
\* generate_bol
LabelsDrawn ==
    \/ run.call = "generate_labels" /\ pc = "Returned"
    \/ run.call = "generate_bol" /\ pc = "Returned" /\ run.output = "path"

\* C13: for a carrier other than PARCEL PRO and any counts (s, c, b) the labels
\* drawn are s + c + b pages: s skid pages without suffix, then c carpet pages with
\* suffix "<j>C/<c>C", then b box pages with suffix "<k>B/<b>B", and the primary
\* text of the i-th page overall is "<i>/<s+c+b>".  (A skid count below zero, which
\* the skid-count check lets through for KPS, draws no skid page: the pages are then
\* more than s + c + b.)
C13_LabelSequence ==
    (LabelsDrawn /\ run.carrier_name # PARCEL_PRO) =>
       LET pages == run.pages
           s == run.skid_count
           c == run.carpet_count
           b == run.box_count
       IN  /\ Len(pages) = s + c + b
           /\ \A i \in 1..Len(pages) :
                 /\ pages[i].primary = Dec(i) \o <<"/">> \o Dec(s + c + b)
                 /\ pages[i].suffix =
                       IF i <= s THEN <<>>
                       ELSE IF i <= s + c
                       THEN Dec(i - s) \o <<"C", "/">> \o Dec(c) \o <<"C">>
                       ELSE Dec(i - s - c) \o <<"B", "/">> \o Dec(b) \o <<"B">>

\* C14: for PARCEL PRO the labels drawn are exactly one page, with primary text
\* "<cartons> PCES." and no suffix, whatever the skid, carpet and box counts are.
\* (label_generator.py draws that page; generate_bol draws one page per item for
\* PARCEL PRO as for every other carrier.)
C14_ParcelProSinglePage ==
    (LabelsDrawn /\ run.carrier_name = PARCEL_PRO) =>
       run.pages =
          <<[primary |-> Dec(run.skid_cartons) \o <<" ", "P", "C", "E", "S", ".">>,
             suffix |-> <<>>]>>

(***************************************************************************)
(* Properties of the order-number entry (checked under SpecOrders).        *)
(***************************************************************************)
\* the ten digits
DigitChars == {"0", "1", "2", "3", "4", "5", "6", "7", "8", "9"}

\* one or more digits, optionally followed by one period and 1 to 2 digits
DigitsWithDecimals(t) ==
    \E d \in 1..Len(t) :
       /\ \A i \in 1..d : t[i] \in DigitChars
       /\ \/ d = Len(t)
          \/ /\ t[d + 1] = "."
             /\ Len(t) - (d + 1) \in 1..2
             /\ \A i \in (d + 2)..Len(t) : t[i] \in DigitChars

\* C15: the text of the order-number entry (surrounding blanks removed by the
\* handler) is accepted exactly when it is digits optionally followed by one period
\* and 1 to 2 digits; an accepted text shorter than 8 characters is stored with
\* ".00" appended, a longer one unchanged, and a rejected text stores nothing.
\* (The pattern of the code reads \d, which is any decimal digit of Unicode, so a
\* text such as "۱23" is accepted too.)
C15_OrderNormalization ==
    [][\A raw \in OrderTyped :
          add_order_number(raw) =>
             LET t == Strip(raw)
             IN  IF DigitsWithDecimals(t)
                 THEN /\ errors' = <<>>
                      /\ order_numbers' =
                            Append(order_numbers,
                                   IF Len(t) < 8 THEN t \o <<".", "0", "0">> ELSE t)
                 ELSE /\ errors' # <<>>
                      /\ order_numbers' = order_numbers]_vars

(***************************************************************************)
(* Properties of the dimension entry (checked under SpecNormalize).        *)
(***************************************************************************)
\* every character of t from position a to position b is a digit (or none is)
Run(t, a, b, digit) == \A i \in a..b : (t[i] \in DigitChars) = digit

\* the result the claim gives for the text d, <<>> when it gives none: six digits
\* are cut in pairs; three digit groups separated by runs of other characters are
\* joined by "x"
Normalized(d) ==
    IF Len(d) = 6 /\ Run(d, 1, 6, TRUE)
    THEN <<d[1], d[2], "x", d[3], d[4], "x", d[5], d[6]>>
    ELSE LET cuts == {c \in (1..Len(d)) \X (1..Len(d)) \X (1..Len(d)) \X (1..Len(d)) :
                         /\ c[1] < c[2] /\ c[2] < c[3] /\ c[3] < c[4] /\ c[4] < Len(d)
                         /\ Run(d, 1, c[1], TRUE)
                         /\ Run(d, c[1] + 1, c[2], FALSE)
                         /\ Run(d, c[2] + 1, c[3], TRUE)
                         /\ Run(d, c[3] + 1, c[4], FALSE)
                         /\ Run(d, c[4] + 1, Len(d), TRUE)}
         IN  IF cuts = {} THEN <<>>
             ELSE LET c == CHOOSE x \in cuts : TRUE
                  IN  SubSeq(d, 1, c[1]) \o <<"x">> \o SubSeq(d, c[2] + 1, c[3])
                      \o <<"x">> \o SubSeq(d, c[4] + 1, Len(d))

\* the suffix of the selected classification
ClassSuffix ==
    IF classification_var = "Carpet" THEN <<" ", "(", "C", ")">>
    ELSE IF classification_var = "Box" THEN <<" ", "(", "B", ")">>
    ELSE <<>>

\* C16: with a carrier other than PARCEL PRO and KPS, a text of exactly six digits
\* is stored as its three pairs joined by "x", a text of exactly three digit groups
\* separated by runs of non-digits as "g1xg2xg3", and every other text is rejected
\* and nothing is added to the list.  (The patterns of the code read \d and \D, so
\* decimal digits of other scripts count as digits: six of them are cut in pairs.)
C16_DimensionNormalization ==
    [][\A raw \in DimShapes :
          (add_skid_dimension(raw) /\ CarrierGet(carrier_var) \notin {PARCEL_PRO, KPS}) =>
             LET d == Strip(raw)
             IN  IF Normalized(d) # <<>>
                 THEN /\ skid_dimensions' =
                            Append(skid_dimensions, Normalized(d) \o ClassSuffix)
                      /\ errors' = <<>>
                 ELSE /\ skid_dimensions' = skid_dimensions
                      /\ errors' # <<>>]_vars

\* C17: with KPS selected, adding a dimension stores the sentinel "N/A" for every
\* raw text: none is rejected and none is stored as an "LxWxH" value.
C17_KpsStoresSentinel ==
    [][\A raw \in DimShapes :
          (add_skid_dimension(raw) /\ CarrierGet(carrier_var) = KPS) =>
             /\ skid_dimensions' = Append(skid_dimensions, <<"N", "/", "A">> \o ClassSuffix)
             /\ errors' = <<>>]_vars

(***************************************************************************)
(* Properties of carrier-field validation (checked under                   *)
(* SpecCarrierFields).                                                     *)
(***************************************************************************)
\* the entry, without surrounding blanks, is one or more letters and digits
AlphanumericEntry(entry) ==
    LET t == Strip(entry)
    IN  Len(t) > 0 /\ \A i \in 1..Len(t) : t[i] \in Letters \cup DigitChars

\* the entry, without surrounding blanks, is a decimal number: an optional sign,
\* then digits with at most one period among them, one digit at least
NumericEntry(entry) ==
    LET t == Strip(entry)
        body == IF Len(t) > 0 /\ t[1] \in {"+", "-"} THEN Tail(t) ELSE t
    IN  /\ \E i \in 1..Len(body) : body[i] \in DigitChars
        /\ \A i \in 1..Len(body) : body[i] \in DigitChars \cup {"."}
        /\ Cardinality({i \in 1..Len(body) : body[i] = "."}) <= 1

\* "ok" when the four rules hold, else the first violated rule
FirstViolatedRule ==
    IF ChosenCarrier \in {FF, NFF} /\ ~AlphanumericEntry(tracking_number_entry)
    THEN "tracking"
    ELSE IF ChosenCarrier \in {FF, NFF} /\ ~AlphanumericEntry(quote_number_entry)
    THEN "quote_number"
    ELSE IF ChosenCarrier \in {FF, NFF, FF_LOGISTICS, CRR} /\ ~NumericEntry(quote_price_entry)
    THEN "quote_price"
    ELSE IF ChosenCarrier \notin {KPS, PARCEL_PRO} /\ ~NumericEntry(weight_entry)
    THEN "weight"
    ELSE "ok"

\* C18: carrier-field validation succeeds exactly when the four rules hold, and on
\* failure it returns the first violated rule in the order tracking number, quote
\* number, quote price, weight.  (The code returns False, which names no rule, and
\* reads a number with float().)
C18_ReturnsFirstViolatedRule ==
    run.fields_status # "none" => run.fields_status = FirstViolatedRule

(***************************************************************************)
(* Properties of the carrier fields of the map (checked under SpecFields). *)
(***************************************************************************)
\* C19: in every field map built (by build_data_map.py or by generate_bol) FF sets
\* FromSIDNum "402140" and OrderNum7 "Quote #: <quote number>", or "Quote #: QN ID"
\* for a blank quote number; NFF sets FromSIDNum "LOU006" and OrderNum7 "Quote #:
\* <quote number>", or "Quote #: " for a blank one; for every other carrier the map
\* holds neither FromSIDNum nor OrderNum7.
C19_SenderAndQuoteFields ==
    MapBuilt =>
       LET m == run.data_map
           quoted == <<"Q", "u", "o", "t", "e", " ", "#", ":", " ">> \o run.quote_number
       IN  IF run.carrier_name = FF
           THEN /\ {"FromSIDNum", "OrderNum7"} \subseteq DOMAIN m
                /\ m["FromSIDNum"] = <<"4", "0", "2", "1", "4", "0">>
                /\ m["OrderNum7"] =
                      IF run.quote_number # <<>> THEN quoted
                      ELSE <<"Q", "u", "o", "t", "e", " ", "#", ":", " ", "Q", "N", " ",
                             "I", "D">>
           ELSE IF run.carrier_name = NFF
           THEN /\ {"FromSIDNum", "OrderNum7"} \subseteq DOMAIN m
                /\ m["FromSIDNum"] = <<"L", "O", "U", "0", "0", "6">>
                /\ m["OrderNum7"] = quoted
           ELSE /\ "FromSIDNum" \notin DOMAIN m
                /\ "OrderNum7" \notin DOMAIN m

\* a map built for NFF with a blank quote number: OrderNum7 is "Quote #: "
C19_NffBlankQuote ==
    /\ MapBuilt
    /\ run.carrier_name = NFF
    /\ run.quote_number = <<>>
    /\ run.data_map["OrderNum7"] = <<"Q", "u", "o", "t", "e", " ", "#", ":", " ">>

(***************************************************************************)
(* Properties of the order lookup (checked under SpecBuild).               *)
(***************************************************************************)
\* C22: every lookup returns a record or None, whatever the database mode and the
\* state of the data source; none of them raises.
C22_LookupNeverRaises ==
    run.call = "fetch_order_data" =>
       (pc = "Returned" /\ run.fetched \in {"record", "none"})

(***************************************************************************)
(* Properties of the package quantity (checked under SpecFields).          *)
(***************************************************************************)
\* a number between -99 and 99 in decimal
SignedDec(n) == IF n < 0 THEN <<"-">> \o Dec(0 - n) ELSE Dec(n)

\* C23: Pkg_QTY_1 of every field map built is the decimal text of cartons - carpets
\* - boxes, negative values included.  (build_data_map.py subtracts; the map
\* generate_bol fills the BOL with holds the carton count as it was entered.)
C23_PackageQuantity ==
    MapBuilt =>
       run.data_map["Pkg_QTY_1"] =
          SignedDec(run.skid_cartons - run.carpet_count - run.box_count)

(***************************************************************************)
(* Properties of the two lists and their displays (checked under           *)
(* SpecLists).                                                             *)
(***************************************************************************)
\* C25: the order listbox shows the entries of order_numbers, and the dimension
\* listbox the entries of skid_dimensions, in the same order.
C25_DisplaysMatchLists ==
    /\ order_listbox = order_numbers
    /\ skid_listbox = skid_dimensions

\* both lists hold an entry that only an update can have written, and an item has been
\* deleted from the dimension list since (two additions, one entry left)
C25_AfterUpdateAndDelete ==
    /\ order_numbers = <<<<"1", "2", "3", ".", "4", "5", ".", "0", "0">>>>
    /\ order_listbox = order_numbers
    /\ skid_dimensions = <<<<"1", "x", "2", "x", "3">>>>
    /\ skid_listbox = skid_dimensions
    /\ skid_count = 2

(***************************************************************************)
(* Properties of a pending edit (checked under SpecLists).                 *)
(***************************************************************************)
\* the list a pending edit is about
EditedList == IF edit_mode = "UpdateOrder" THEN order_numbers ELSE skid_dimensions

\* C26: from Edit to Update the index the update closure holds keeps designating the
\* item that was selected at Edit time (no step in between removes or moves it), so
\* the Update replaces that item and no other; and no Update fails on an index that
\* no longer exists.
C26_UpdateReplacesSelected ==
    [][/\ (edit_mode # "Edit" /\ edit_mode' = edit_mode)
             => /\ edit_index \in 1..Len(EditedList')
                /\ EditedList'[edit_index] = EditedList[edit_index]
       /\ errors' # <<"IndexError">>]_vars

(***************************************************************************)
(* Properties of repeated normalization (checked under SpecOrders).        *)
(***************************************************************************)
\* C27: every entry of the order-number list is a fixed point of
\* process_order_number, so confirming an edit with the text untouched writes back
\* the entry as it was.
C27_NormalizationIdempotent ==
    \A i \in 1..Len(order_numbers) :
       process_order_number(order_numbers[i]) = order_numbers[i]

(***************************************************************************)
(* Properties of the classes of the dimension list (checked under          *)
(* SpecDims).                                                              *)
(***************************************************************************)
\* C28: the entries with neither marker, the entries containing "(C)" and the entries
\* containing "(B)" add up to the length of the dimension list.
C28_OneClassPerEntry ==
    CountIf(skid_dimensions, IsPlainSkid) + CountIf(skid_dimensions, IsCarpet)
    + CountIf(skid_dimensions, IsBox) = Len(skid_dimensions)

(***************************************************************************)
(* Properties of the displayed skid count (checked under SpecCount).       *)
(***************************************************************************)
\* the decimal text of the number of entries of dims with neither marker
PlainCountText(dims) ==
    Dec(Cardinality({k \in 1..Len(dims) :
                        ~Contains(dims[k], TagC) /\ ~Contains(dims[k], TagB)}))

\* C30: right after a dimension has been added, an edit of a dimension has been
\* confirmed, or a dimension has been deleted, the skid-count entry shows the number
\* of entries of the list that contain neither "(C)" nor "(B)", whatever it showed
\* before.
C30_SkidCountShown ==
    [][/\ \A raw \in ListDimTyped :
             (add_skid_dimension(raw) /\ Len(skid_dimensions') = Len(skid_dimensions) + 1)
                => skid_count_entry' = PlainCountText(skid_dimensions')
       /\ \A raw \in ListDimRetyped \cup {skid_dimension_entry} :
             (update_skid(raw) /\ edit_mode' = "Edit")
                => skid_count_entry' = PlainCountText(skid_dimensions')
       /\ \A i \in 1..MaxDims :
             delete_skid(i) => skid_count_entry' = PlainCountText(skid_dimensions')]_vars

\* a carpet entry that an update has rewritten, next to one skid: the entry shows "1"
C30_CountAfterUpdate ==
    /\ skid_dimensions = <<<<"1", "x", "2", "x", "3", " ", "(", "C", ")">>, PlainDim>>
    /\ edit_mode = "Edit"
    /\ skid_count_entry = <<"1">>

====
